---- MODULE Spec2Model ----
(***************************************************************************)
(* Model of the puzzle engine of tui_sudoku: the backtracking generator    *)
(* (infrastructure/generators/backtracking_generator.py) and the           *)
(* backtracking solver (infrastructure/solvers/backtracking_solver.py).    *)
(*                                                                         *)
(* A grid is a function board[row][col] over 0-based indices, as the       *)
(* Python list of lists; 0 is an empty cell.                               *)
(*                                                                         *)
(* The generator's recursion _fill_board is a state machine over an        *)
(* explicit call stack, because its candidate order is random.  The        *)
(* solver is deterministic: its functions are operators computed as the    *)
(* code computes them.                                                     *)
(***************************************************************************)
EXTENDS Integers, Sequences, FiniteSets

VARIABLES
    bw,          \* box_width of the running call
    bh,          \* box_height of the running call
    difficulty,  \* the difficulty argument of generate
    board,       \* the generator's working grid (complete_board once filled)
    stack,       \* the active _fill_board frames, innermost last
    ret,         \* value returned by the _fill_board call that returned last,
                 \* FALSE while none has returned
    puzzle,      \* the grid returned by _remove_cells / generate
    removeCount, \* cells_to_remove drawn by _remove_cells
    grid,        \* the grid a caller hands to the solver
    solved,      \* the value solve returned
    placements,  \* placements made by the search of the solve call
    unique,      \* the value has_unique_solution returned
    pc,          \* control point
    before,      \* the grid argument of the last call, as it was at the call
    drawn,       \* cells_to_remove drawn so far, by difficulty
    probe,       \* an _is_valid_placement call: its arguments and results
    state,       \* Game.state
    boardCells,  \* Board._cells of the game: value and is_fixed by position
    raised,      \* the exception the last operation on the game raised
    called,      \* the operation of the game called last, with arguments
    now,         \* the clock: what datetime.now() returns
    startTime,   \* Game._start_time
    endTime,     \* Game._end_time
    pauseTime,   \* Game._pause_time
    totalPaused, \* Game._total_paused_duration
    played,      \* the clock time the game has spent IN_PROGRESS so far
    current_player, \* AppController._current_player
    success,     \* the bool MakeMoveUseCase.execute returned last
    stats,       \* the statistics file, as _read_statistics returns it
    calls,       \* the update_statistics calls made so far, in order
    work,        \* the copy of the grid the solver's search writes to
    frames,      \* the active _solve_recursive / _count_solutions frames
    result,      \* value returned by the search call that returned last
    reached      \* complete assignments the search has reached so far

vars == <<bw, bh, difficulty, board, stack, ret, puzzle, removeCount,
          grid, solved, placements, unique, pc,
          before, drawn, probe, state, boardCells, raised, called, now,
          startTime, endTime, pauseTime, totalPaused, played, current_player,
          success, stats, calls,
          work, frames, result, reached>>

\* The fields of the Game entity and of its board.
gameVars == <<state, boardCells, raised, called, now,
              startTime, endTime, pauseTime, totalPaused>>

\* The state of the use cases around the game.
serviceVars == <<success, stats, calls>>

\* What the application around the game holds and what is recorded about
\* it.
appVars == <<played, current_player, serviceVars>>

\* The state of the solver's search when it runs step by step.
searchVars == <<work, frames, result, reached>>

\* The variables no call of the generator and no call of the solver taken
\* as one step touches.
otherVars == <<drawn, probe, gameVars, appVars, searchVars>>

\* The variables of the generator and of the solver, which no operation of
\* the game touches.
engineVars == <<bw, bh, difficulty, board, stack, ret, puzzle, removeCount,
                grid, solved, placements, unique, pc, before, drawn, probe,
                searchVars>>

\* Python's None, and the value of a grid variable not assigned yet.  (The
\* empty grid [] of a board of size 0 or less is the same value.)
None == <<>>

\* No search of the solver is running.
NoSearch ==
    /\ work = None
    /\ frames = <<>>
    /\ result = None
    /\ reached = 0

(***************************************************************************)
(* Grids                                                                   *)
(***************************************************************************)

\* range(n)
Range(n) == 0 .. (n - 1)

\* [[0 for _ in range(board_size)] for _ in range(board_size)]
ZeroBoard(n) == [r \in Range(n) |-> [c \in Range(n) |-> 0]]

\* The (row, col) positions of an n x n grid.
Positions(n) == Range(n) \X Range(n)

\* A grid is a list of row objects.  own[r] names the row object at index r
\* of the caller's grid b, target[r] the row object at index r of the grid a
\* callee writes to, and written is the content of that grid when the callee
\* returns.  The result is the content of the caller's grid then: a row of b
\* has changed exactly if it is one of the row objects written to.
RowsAfterWrites(b, own, target, written) ==
    [r \in DOMAIN b |->
        IF \E t \in DOMAIN target : target[t] = own[r]
        THEN written[CHOOSE t \in DOMAIN target : target[t] = own[r]]
        ELSE b[r]]

\* Number of cells of b holding 0.
ZeroCount(b, n) == Cardinality({p \in Positions(n) : b[p[1]][p[2]] = 0})

(***************************************************************************)
(* BacktrackingGenerator                                                   *)
(***************************************************************************)

\* The removal rates with the range of EASY reaching the start of the range
\* of MEDIUM: (0.30, 0.45) in the place of (0.30, 0.40).
RemovalRatesTouching ==
    [EASY |-> <<30, 45>>, MEDIUM |-> <<45, 55>>, HARD |-> <<60, 65>>]

\* self._difficulty_removal_rates, in percent.
RemovalRates ==
    [EASY |-> <<30, 40>>, MEDIUM |-> <<45, 55>>, HARD |-> <<60, 65>>]

\* The difficulty taken as it is spelled: no call of str.upper().
UpperLeftOut(s) == s

\* str.upper() on the difficulty names the model feeds to generate.
Upper(s) ==
    CASE s = "easy" -> "EASY"
      [] s = "medium" -> "MEDIUM"
      [] s = "Medium" -> "MEDIUM"
      [] s = "hard" -> "HARD"
      [] s = "expert" -> "EXPERT"
      [] OTHER -> s

\* round(total_cells * rate) in the place of int(total_cells * rate).
IntOfRateRounded(total, percent) == (total * percent + 50) \div 100

\* int(total_cells * rate) for a rate given in percent.  The float product
\* truncates to the same integer as the exact one for every total the model
\* and the application use.
IntOfRate(total, percent) == (total * percent) \div 100

\* BacktrackingGenerator._find_empty_cell: first zero in row-major order.
GenFindEmptyCell(b, board_size) ==
    LET empty == {p \in Positions(board_size) : b[p[1]][p[2]] = 0}
    IN  IF empty = {} THEN None
        ELSE CHOOSE p \in empty :
                \A q \in empty : p[1] < q[1] \/ (p[1] = q[1] /\ p[2] <= q[2])

\* _is_valid_placement without its column scan (lines 182-184 left out).
GenIsValidPlacementNoColumn(b, row, col, num, box_width, box_height) ==
    LET box_start_row == (row \div box_height) * box_height
        box_start_col == (col \div box_width) * box_width
    IN  /\ ~ \E c \in DOMAIN b[row] : b[row][c] = num
        /\ ~ \E r \in box_start_row .. (box_start_row + box_height - 1) :
               \E c \in box_start_col .. (box_start_col + box_width - 1) :
                  b[r][c] = num

\* _is_valid_placement without its box scan (lines 186-193 left out).
GenIsValidPlacementNoBox(b, row, col, num, box_width, box_height) ==
    LET board_size == box_width * box_height
    IN  /\ ~ \E c \in DOMAIN b[row] : b[row][c] = num
        /\ ~ \E r \in Range(board_size) : b[r][col] = num

\* BacktrackingGenerator._is_valid_placement
GenIsValidPlacement(b, row, col, num, box_width, box_height) ==
    LET board_size == box_width * box_height
        box_start_row == (row \div box_height) * box_height
        box_start_col == (col \div box_width) * box_width
    IN  /\ ~ \E c \in DOMAIN b[row] : b[row][c] = num
        /\ ~ \E r \in Range(board_size) : b[r][col] = num
        /\ ~ \E r \in box_start_row .. (box_start_row + box_height - 1) :
               \E c \in box_start_col .. (box_start_col + box_width - 1) :
                  b[r][c] = num

\* The frame on top of the call stack: the innermost active _fill_board.
\* A frame holds the cell of the call, the numbers its loop has placed, and
\* the board as it was when the call was entered.
Top == stack[Len(stack)]

\* The stack without its innermost frame.
Pop == SubSeq(stack, 1, Len(stack) - 1)

\* The candidates the loop of the innermost frame can still place: the
\* numbers of 1..board_size it has not placed yet that pass
\* _is_valid_placement.  random.shuffle fixes an arbitrary order of 1..N, so
\* the next number the loop places is any of them; a number that fails the
\* check is passed over without a trace.
Candidates ==
    {num \in (1 .. (bw * bh)) \ Top.tried :
        GenIsValidPlacement(board, Top.row, Top.col, num, bw, bh)}

\* generate, lines 65-72: the difficulty check.
GenerateEnter ==
    /\ pc = "generate"
    /\ pc' = IF Upper(difficulty) \in DOMAIN RemovalRates
             THEN "complete_board" ELSE "error"
    /\ UNCHANGED <<bw, bh, difficulty, board, stack, ret, puzzle,
                   removeCount, grid, solved, placements, unique>>
    /\ UNCHANGED <<before, otherVars>>

\* _generate_complete_board, lines 96-99: the all-zero board, then the
\* top-level _fill_board call.
CompleteBoardEnter ==
    /\ pc = "complete_board"
    /\ board' = ZeroBoard(bw * bh)
    /\ pc' = "fill"
    /\ UNCHANGED <<bw, bh, difficulty, stack, ret, puzzle, removeCount,
                   grid, solved, placements, unique>>
    /\ UNCHANGED <<before, otherVars>>

\* _fill_board, lines 115-123: a call starts; it returns True on a full
\* board, and otherwise enters its loop at the first empty cell.
FillEnter ==
    /\ pc = "fill"
    /\ LET empty_cell == GenFindEmptyCell(board, bw * bh)
       IN  IF empty_cell = None
           THEN /\ ret' = TRUE
                /\ pc' = "return"
                /\ UNCHANGED stack
           ELSE /\ stack' = Append(stack, [row |-> empty_cell[1],
                                           col |-> empty_cell[2],
                                           tried |-> {},
                                           entry |-> board])
                /\ pc' = "loop"
                /\ UNCHANGED ret
    /\ UNCHANGED <<bw, bh, difficulty, board, puzzle, removeCount,
                   grid, solved, placements, unique>>
    /\ UNCHANGED <<before, otherVars>>

\* _fill_board, lines 125-129: the loop places the next valid candidate and
\* calls itself.
FillPlace ==
    /\ pc = "loop"
    /\ \E num \in Candidates :
          /\ board' = [board EXCEPT ![Top.row][Top.col] = num]
          /\ stack' = [stack EXCEPT ![Len(stack)].tried = @ \cup {num}]
    /\ pc' = "fill"
    /\ UNCHANGED <<bw, bh, difficulty, ret, puzzle, removeCount,
                   grid, solved, placements, unique>>
    /\ UNCHANGED <<before, otherVars>>

\* _fill_board, line 134: the loop is exhausted, the call returns False.
FillExhausted ==
    /\ pc = "loop"
    /\ Candidates = {}
    /\ stack' = Pop
    /\ ret' = FALSE
    /\ pc' = "return"
    /\ UNCHANGED <<bw, bh, difficulty, board, puzzle, removeCount,
                   grid, solved, placements, unique>>
    /\ UNCHANGED <<before, otherVars>>

\* _fill_board, lines 129-130: the recursive call returned True, and so
\* does its caller.
FillPropagate ==
    /\ pc = "return"
    /\ stack # <<>>
    /\ ret = TRUE
    /\ stack' = Pop
    /\ UNCHANGED <<bw, bh, difficulty, board, ret, puzzle, removeCount,
                   grid, solved, placements, unique, pc>>
    /\ UNCHANGED <<before, otherVars>>

\* _fill_board that starts its loop over after a failed recursive call: the
\* numbers placed so far are tried again.
FillBacktrackStartOver ==
    /\ pc = "return"
    /\ stack # <<>>
    /\ ret = FALSE
    /\ board' = [board EXCEPT ![Top.row][Top.col] = 0]
    /\ stack' = [stack EXCEPT ![Len(stack)].tried = {}]
    /\ pc' = "loop"
    /\ UNCHANGED <<bw, bh, difficulty, ret, puzzle, removeCount,
                   grid, solved, placements, unique>>
    /\ UNCHANGED <<before, otherVars>>

\* _fill_board, lines 129-132: the recursive call returned False; the cell
\* is reset and the loop goes on.
FillBacktrack ==
    /\ pc = "return"
    /\ stack # <<>>
    /\ ret = FALSE
    /\ board' = [board EXCEPT ![Top.row][Top.col] = 0]
    /\ pc' = "loop"
    /\ UNCHANGED <<bw, bh, difficulty, stack, ret, puzzle, removeCount,
                   grid, solved, placements, unique>>
    /\ UNCHANGED <<before, otherVars>>

\* _generate_complete_board, lines 99-100: the top-level _fill_board call
\* returned; its result is dropped and the board is returned.
CompleteBoardReturn ==
    /\ pc = "return"
    /\ stack = <<>>
    /\ pc' = "filled"
    /\ UNCHANGED <<bw, bh, difficulty, board, stack, ret, puzzle,
                   removeCount, grid, solved, placements, unique>>
    /\ UNCHANGED <<before, otherVars>>

\* The k-element subsets of S: the first k positions of a shuffled list of
\* S, as a set.
KSubsets(S, k) == {T \in SUBSET S : Cardinality(T) = k}

\* _remove_cells whose loop reads the cell and never writes it (line 237
\* left out).
RemoveCellsNoWrite(b, box_width, box_height, diff, cells_to_remove, first) ==
    [r \in Range(box_width * box_height) |->
        [c \in Range(box_width * box_height) |-> b[r][c]]]

\* _remove_cells, lines 218-243: copy the board, draw cells_to_remove with
\* random.randint, shuffle the positions and zero the first cells_to_remove
\* of them.
RemoveCells(b, box_width, box_height, diff, cells_to_remove, first) ==
    LET board_size == box_width * box_height
    IN  [r \in Range(board_size) |->
            [c \in Range(board_size) |->
                IF <<r, c>> \in first THEN 0 ELSE b[r][c]]]

\* The inclusive range random.randint draws cells_to_remove from, lines
\* 221-225.
RemoveRange(box_width, box_height, diff) ==
    LET total_cells == (box_width * box_height) * (box_width * box_height)
    IN  IntOfRate(total_cells, RemovalRates[diff][1]) ..
        IntOfRate(total_cells, RemovalRates[diff][2])

\* _remove_cells with a shallow copy (puzzle = board[:] in the place of
\* line 218): puzzle is a new list of the row objects of board.
BoardAfterRemoveCellsShallow(b, box_width, box_height, diff, cells_to_remove, first) ==
    LET own == [r \in DOMAIN b |-> r]
        puzzle_rows == own
    IN  RowsAfterWrites(b, own, puzzle_rows,
                        RemoveCells(b, box_width, box_height, diff,
                                    cells_to_remove, first))

\* The board argument as _remove_cells leaves it.  puzzle = [row[:] for row
\* in board] (line 218) is a list of new row objects, one per row of board,
\* and the loop writes to puzzle.
BoardAfterRemoveCells(b, box_width, box_height, diff, cells_to_remove, first) ==
    LET own == [r \in DOMAIN b |-> r]
        puzzle_rows == [r \in DOMAIN b |-> Cardinality(DOMAIN b) + r]
    IN  RowsAfterWrites(b, own, puzzle_rows,
                        RemoveCells(b, box_width, box_height, diff,
                                    cells_to_remove, first))

\* The smaller of two numbers.
Min(a, b) == IF a <= b THEN a ELSE b

\* generate, lines 76-78: _remove_cells on the complete board; generate
\* returns its result.  The loop of _remove_cells ends at cells_to_remove
\* removals or at the end of the positions, whichever comes first.
GenerateRemove ==
    /\ pc = "filled"
    /\ \E cells_to_remove \in RemoveRange(bw, bh, Upper(difficulty)) :
          \E first \in KSubsets(Positions(bw * bh),
                                Min(cells_to_remove,
                                    Cardinality(Positions(bw * bh)))) :
             /\ removeCount' = cells_to_remove
             /\ puzzle' = RemoveCells(board, bw, bh, Upper(difficulty),
                                      cells_to_remove, first)
             /\ board' = BoardAfterRemoveCells(board, bw, bh,
                                               Upper(difficulty),
                                               cells_to_remove, first)
    /\ before' = board
    /\ pc' = "done"
    /\ UNCHANGED <<bw, bh, difficulty, stack, ret, grid, solved,
                   placements, unique>>
    /\ UNCHANGED otherVars

(***************************************************************************)
(* BacktrackingSolver                                                      *)
(***************************************************************************)

\* _find_empty_cell scanning right-to-left, bottom-to-top: the last empty
\* cell.
FindEmptyCellLast(b, board_size) ==
    IF \A row \in Range(board_size) : \A col \in Range(board_size) :
          b[row][col] # 0
    THEN None
    ELSE LET row == CHOOSE r \in Range(board_size) :
                       /\ \E c \in Range(board_size) : b[r][c] = 0
                       /\ \A r2 \in (r + 1) .. (board_size - 1) :
                             \A c \in Range(board_size) : b[r2][c] # 0
             col == CHOOSE c \in Range(board_size) :
                       /\ b[row][c] = 0
                       /\ \A c2 \in (c + 1) .. (board_size - 1) :
                             b[row][c2] # 0
         IN  <<row, col>>

\* BacktrackingSolver._find_empty_cell: left-to-right, top-to-bottom scan.
FindEmptyCell(b, board_size) ==
    IF \A row \in Range(board_size) : \A col \in Range(board_size) :
          b[row][col] # 0
    THEN None
    ELSE LET row == CHOOSE r \in Range(board_size) :
                       /\ \E c \in Range(board_size) : b[r][c] = 0
                       /\ \A r2 \in 0 .. (r - 1) :
                             \A c \in Range(board_size) : b[r2][c] # 0
             col == CHOOSE c \in Range(board_size) :
                       /\ b[row][c] = 0
                       /\ \A c2 \in 0 .. (c - 1) : b[row][c2] # 0
         IN  <<row, col>>

\* _is_valid_placement without its column scan (lines 224-226 left out).
IsValidPlacementNoColumn(b, row, col, num, box_width, box_height) ==
    LET box_start_row == (row \div box_height) * box_height
        box_start_col == (col \div box_width) * box_width
    IN  /\ ~ \E c \in DOMAIN b[row] : b[row][c] = num
        /\ ~ \E r \in box_start_row .. (box_start_row + box_height - 1) :
               \E c \in box_start_col .. (box_start_col + box_width - 1) :
                  b[r][c] = num

\* BacktrackingSolver._is_valid_placement
IsValidPlacement(b, row, col, num, box_width, box_height) ==
    LET board_size == box_width * box_height
        box_start_row == (row \div box_height) * box_height
        box_start_col == (col \div box_width) * box_width
    IN  IF \E c \in DOMAIN b[row] : b[row][c] = num THEN FALSE
        ELSE IF \E r \in Range(board_size) : b[r][col] = num THEN FALSE
        ELSE IF \E r \in box_start_row .. (box_start_row + box_height - 1) :
                   \E c \in box_start_col .. (box_start_col + box_width - 1) :
                      b[r][c] = num
             THEN FALSE
             ELSE TRUE

\* True iff the list of the non-zero values at the cells `cells` of b, and
\* the set of them, differ in length: len(nums) != len(set(nums)).
HasDuplicate(b, cells) ==
    LET non_zero == {p \in cells : b[p[1]][p[2]] # 0}
    IN  Cardinality(non_zero) #
        Cardinality({b[p[1]][p[2]] : p \in non_zero})

\* _is_initial_board_valid without its scan of the boxes (lines 270-279
\* left out).
IsInitialBoardValidNoBoxes(b, box_width, box_height) ==
    LET board_size == box_width * box_height
    IN  /\ \A row \in Range(board_size) :
             ~ HasDuplicate(b, {row} \X Range(board_size))
        /\ \A col \in Range(board_size) :
             ~ HasDuplicate(b, Range(board_size) \X {col})

\* BacktrackingSolver._is_initial_board_valid: the scan of the rows, the
\* columns and the boxes.
IsInitialBoardValid(b, box_width, box_height) ==
    LET board_size == box_width * box_height
        box_rows == {r \in Range(board_size) : r % box_height = 0}
        box_cols == {c \in Range(board_size) : c % box_width = 0}
    IN  /\ \A row \in Range(board_size) :
             ~ HasDuplicate(b, {row} \X Range(board_size))
        /\ \A col \in Range(board_size) :
             ~ HasDuplicate(b, Range(board_size) \X {col})
        /\ \A box_row \in box_rows : \A box_col \in box_cols :
             ~ HasDuplicate(b, (box_row .. (box_row + box_height - 1)) \X
                               (box_col .. (box_col + box_width - 1)))

RECURSIVE SolveRecursive(_, _, _)
RECURSIVE SolveLoop(_, _, _, _, _, _)

\* _solve_recursive that returns False where no cell is empty (line 116).
SolveRecursiveFalseWhenFull(b, box_width, box_height) ==
    LET board_size == box_width * box_height
        empty_cell == FindEmptyCell(b, board_size)
    IN  IF empty_cell = None
        THEN [ok |-> FALSE, board |-> b, placed |-> 0]
        ELSE SolveLoop(b, box_width, box_height,
                       empty_cell[1], empty_cell[2], 1)

\* BacktrackingSolver._solve_recursive.  The code mutates the board in
\* place and returns a flag; the operator returns the flag (ok) with the
\* board as the call leaves it and the number of placements
\* board[row][col] = num the call and its sub-calls made (placed).
SolveRecursive(b, box_width, box_height) ==
    LET board_size == box_width * box_height
        empty_cell == FindEmptyCell(b, board_size)
    IN  IF empty_cell = None
        THEN [ok |-> TRUE, board |-> b, placed |-> 0]
        ELSE SolveLoop(b, box_width, box_height,
                       empty_cell[1], empty_cell[2], 1)

\* The loop of _solve_recursive over range(1, board_size): the last
\* candidate is never tried.
SolveLoopShort(b, box_width, box_height, row, col, num) ==
    IF num >= box_width * box_height
    THEN [ok |-> FALSE, board |-> b, placed |-> 0]
    ELSE IF IsValidPlacement(b, row, col, num, box_width, box_height)
         THEN LET sub == SolveRecursive([b EXCEPT ![row][col] = num],
                                        box_width, box_height)
              IN  IF sub.ok
                  THEN [sub EXCEPT !.placed = @ + 1]
                  ELSE LET rest == SolveLoop(
                                      [sub.board EXCEPT ![row][col] = 0],
                                      box_width, box_height, row, col,
                                      num + 1)
                       IN  [rest EXCEPT !.placed = @ + sub.placed + 1]
         ELSE SolveLoop(b, box_width, box_height, row, col, num + 1)

\* The loop of _solve_recursive, lines 120-129, from candidate num on.
SolveLoop(b, box_width, box_height, row, col, num) ==
    IF num > box_width * box_height
    THEN [ok |-> FALSE, board |-> b, placed |-> 0]
    ELSE IF IsValidPlacement(b, row, col, num, box_width, box_height)
         THEN LET sub == SolveRecursive([b EXCEPT ![row][col] = num],
                                        box_width, box_height)
              IN  IF sub.ok
                  THEN [sub EXCEPT !.placed = @ + 1]
                  ELSE LET rest == SolveLoop(
                                      [sub.board EXCEPT ![row][col] = 0],
                                      box_width, box_height, row, col,
                                      num + 1)
                       IN  [rest EXCEPT !.placed = @ + sub.placed + 1]
         ELSE SolveLoop(b, box_width, box_height, row, col, num + 1)

\* BacktrackingSolver.solve: the validity scan, then the search on a copy.
\* value is what solve returns, placed the number of placements its search
\* made.
SolveCall(b, box_width, box_height) ==
    IF ~ IsInitialBoardValid(b, box_width, box_height)
    THEN [value |-> None, placed |-> 0]
    ELSE LET found == SolveRecursive(b, box_width, box_height)
         IN  [value |-> IF found.ok THEN found.board ELSE None,
              placed |-> found.placed]

\* The value BacktrackingSolver.solve returns.
Solve(b, box_width, box_height) == SolveCall(b, box_width, box_height).value

\* solve with a shallow copy (solution = board[:] in the place of line 74):
\* solution is a new list of the row objects of board.
BoardAfterSolveShallow(b, box_width, box_height) ==
    LET own == [r \in DOMAIN b |-> r]
        solution_rows == own
    IN  IF ~ IsInitialBoardValid(b, box_width, box_height)
        THEN b
        ELSE RowsAfterWrites(b, own, solution_rows,
                             SolveRecursive(b, box_width, box_height).board)

\* The board argument as solve leaves it.  The validity scan reads it;
\* solution = [row[:] for row in board] (line 74) is a list of new row
\* objects, one per row of board, and the search writes to solution.
BoardAfterSolve(b, box_width, box_height) ==
    LET own == [r \in DOMAIN b |-> r]
        solution_rows == [r \in DOMAIN b |-> Cardinality(DOMAIN b) + r]
    IN  IF ~ IsInitialBoardValid(b, box_width, box_height)
        THEN b
        ELSE RowsAfterWrites(b, own, solution_rows,
                             SolveRecursive(b, box_width, box_height).board)

RECURSIVE CountSolutions(_, _, _, _)
RECURSIVE CountLoop(_, _, _, _, _, _, _, _)

\* BacktrackingSolver._count_solutions; returns the count with the board as
\* the call leaves it.
CountSolutions(b, box_width, box_height, max_count) ==
    LET board_size == box_width * box_height
        empty_cell == FindEmptyCell(b, board_size)
    IN  IF empty_cell = None
        THEN [count |-> 1, board |-> b]
        ELSE CountLoop(b, box_width, box_height, max_count,
                       empty_cell[1], empty_cell[2], 1, 0)

\* The loop of _count_solutions, lines 158-169, from candidate num on with
\* the running count.
CountLoop(b, box_width, box_height, max_count, row, col, num, count) ==
    IF num > box_width * box_height
    THEN [count |-> count, board |-> b]
    ELSE IF IsValidPlacement(b, row, col, num, box_width, box_height)
         THEN LET sub == CountSolutions([b EXCEPT ![row][col] = num],
                                        box_width, box_height, max_count)
                  after == [sub.board EXCEPT ![row][col] = 0]
              IN  IF count + sub.count >= max_count
                  THEN [count |-> count + sub.count, board |-> after]
                  ELSE CountLoop(after, box_width, box_height, max_count,
                                 row, col, num + 1, count + sub.count)
         ELSE CountLoop(b, box_width, box_height, max_count,
                        row, col, num + 1, count)

\* has_unique_solution that returns solution_count >= 1.
HasUniqueSolutionAtLeastOne(b, box_width, box_height) ==
    CountSolutions(b, box_width, box_height, 2).count >= 1

\* BacktrackingSolver.has_unique_solution
HasUniqueSolution(b, box_width, box_height) ==
    CountSolutions(b, box_width, box_height, 2).count = 1

\* The board argument as has_unique_solution leaves it.  _count_solutions
\* is handed [row[:] for row in board] (line 95), a list of new row objects,
\* one per row of board, and writes to it.
BoardAfterHasUniqueSolution(b, box_width, box_height) ==
    LET own == [r \in DOMAIN b |-> r]
        copy_rows == [r \in DOMAIN b |-> Cardinality(DOMAIN b) + r]
    IN  RowsAfterWrites(b, own, copy_rows,
                        CountSolutions(b, box_width, box_height, 2).board)

(***************************************************************************)
(* The search of the solver, step by step                                  *)
(*                                                                         *)
(* solve and has_unique_solution as state machines over an explicit call   *)
(* stack: one step per call entered, per placement and per return.  A      *)
(* frame holds the cell of the call, the candidate num its loop is at, the *)
(* local count of _count_solutions, and the working grid as it was when    *)
(* the call was entered.                                                   *)
(***************************************************************************)

\* max_count, as has_unique_solution passes it (line 96).
MaxCount == 2

\* The innermost active call of the search.
TopFrame == frames[Len(frames)]

\* The frames without the innermost one.
PopFrame == SubSeq(frames, 1, Len(frames) - 1)

\* The first number from TopFrame.num on that passes _is_valid_placement
\* at the cell of the innermost call, 0 when there is none.
NextCandidate ==
    LET valid == {num \in TopFrame.num .. (bw * bh) :
                     IsValidPlacement(work, TopFrame.row, TopFrame.col, num,
                                      bw, bh)}
    IN  IF valid = {} THEN 0
        ELSE CHOOSE num \in valid : \A other \in valid : num <= other

\* The variables the search leaves alone.
searchFrame == <<bw, bh, difficulty, board, stack, ret, puzzle, removeCount,
                 grid, placements, before, drawn, probe, gameVars, appVars>>

\* solve searching an empty grid of the size of the board in the place of
\* the copy (line 74 as solution = [[0] * len(row) for row in board]).
SolveBeginOnEmpty ==
    /\ pc = "caller"
    /\ IF ~ IsInitialBoardValid(grid, bw, bh)
       THEN /\ solved' = None
            /\ pc' = "solved"
            /\ UNCHANGED work
       ELSE /\ work' = ZeroBoard(bw * bh)
            /\ pc' = "solve call"
            /\ UNCHANGED solved
    /\ UNCHANGED <<frames, result, reached, unique>>
    /\ UNCHANGED searchFrame

\* solve, lines 70-76: the validity scan, then the copy and the top-level
\* _solve_recursive call.
SolveBegin ==
    /\ pc = "caller"
    /\ IF ~ IsInitialBoardValid(grid, bw, bh)
       THEN /\ solved' = None
            /\ pc' = "solved"
            /\ UNCHANGED work
       ELSE /\ work' = grid
            /\ pc' = "solve call"
            /\ UNCHANGED solved
    /\ UNCHANGED <<frames, result, reached, unique>>
    /\ UNCHANGED searchFrame

\* _solve_recursive, lines 112-118: a call starts; it returns True on a
\* full board, and otherwise enters its loop at the first empty cell.
SolveRecursiveEnter ==
    /\ pc = "solve call"
    /\ LET empty_cell == FindEmptyCell(work, bw * bh)
       IN  IF empty_cell = None
           THEN /\ result' = TRUE
                /\ reached' = reached + 1
                /\ pc' = "solve return"
                /\ UNCHANGED frames
           ELSE /\ frames' = Append(frames, [row |-> empty_cell[1],
                                             col |-> empty_cell[2],
                                             num |-> 1,
                                             entry |-> work])
                /\ pc' = "solve loop"
                /\ UNCHANGED <<result, reached>>
    /\ UNCHANGED <<work, solved, unique>>
    /\ UNCHANGED searchFrame

\* _solve_recursive, lines 120-124: the loop places the next number that
\* passes _is_valid_placement and calls itself.
SolveRecursivePlace ==
    /\ pc = "solve loop"
    /\ NextCandidate # 0
    /\ work' = [work EXCEPT ![TopFrame.row][TopFrame.col] = NextCandidate]
    /\ frames' = [frames EXCEPT ![Len(frames)].num = NextCandidate]
    /\ pc' = "solve call"
    /\ UNCHANGED <<result, reached, solved, unique>>
    /\ UNCHANGED searchFrame

\* _solve_recursive, line 129: the loop is exhausted, the call returns
\* False.
SolveRecursiveExhausted ==
    /\ pc = "solve loop"
    /\ NextCandidate = 0
    /\ frames' = PopFrame
    /\ result' = FALSE
    /\ pc' = "solve return"
    /\ UNCHANGED <<work, reached, solved, unique>>
    /\ UNCHANGED searchFrame

\* _solve_recursive, lines 124-125: the recursive call returned True, and
\* so does its caller.
SolveRecursivePropagate ==
    /\ pc = "solve return"
    /\ frames # <<>>
    /\ result = TRUE
    /\ frames' = PopFrame
    /\ UNCHANGED <<work, result, reached, solved, unique, pc>>
    /\ UNCHANGED searchFrame

\* _solve_recursive that goes on with the next number without resetting the
\* cell (line 127 left out).
SolveRecursiveNoReset ==
    /\ pc = "solve return"
    /\ frames # <<>>
    /\ result = FALSE
    /\ frames' = [frames EXCEPT ![Len(frames)].num = @ + 1]
    /\ pc' = "solve loop"
    /\ UNCHANGED <<work, result, reached, solved, unique>>
    /\ UNCHANGED searchFrame

\* _solve_recursive, lines 124-127: the recursive call returned False; the
\* cell is reset and the loop goes on with the next number.
SolveRecursiveBacktrack ==
    /\ pc = "solve return"
    /\ frames # <<>>
    /\ result = FALSE
    /\ work' = [work EXCEPT ![TopFrame.row][TopFrame.col] = 0]
    /\ frames' = [frames EXCEPT ![Len(frames)].num = @ + 1]
    /\ pc' = "solve loop"
    /\ UNCHANGED <<result, reached, solved, unique>>
    /\ UNCHANGED searchFrame

\* solve, lines 76-79: the top-level call returned; solve returns the copy
\* or None.
SolveEnd ==
    /\ pc = "solve return"
    /\ frames = <<>>
    /\ solved' = IF result THEN work ELSE None
    /\ pc' = "solved"
    /\ UNCHANGED <<work, frames, result, reached, unique>>
    /\ UNCHANGED searchFrame

\* has_unique_solution, lines 95-96: the copy and the top-level
\* _count_solutions call.
HasUniqueSolutionBegin ==
    /\ pc = "caller"
    /\ work' = grid
    /\ pc' = "count call"
    /\ UNCHANGED <<frames, result, reached, solved, unique>>
    /\ UNCHANGED searchFrame

\* _count_solutions, lines 149-156: a call starts; it returns 1 on a full
\* board, and otherwise enters its loop at the first empty cell with
\* count = 0.
CountSolutionsEnter ==
    /\ pc = "count call"
    /\ LET empty_cell == FindEmptyCell(work, bw * bh)
       IN  IF empty_cell = None
           THEN /\ result' = 1
                /\ reached' = reached + 1
                /\ pc' = "count return"
                /\ UNCHANGED frames
           ELSE /\ frames' = Append(frames, [row |-> empty_cell[1],
                                             col |-> empty_cell[2],
                                             num |-> 1,
                                             count |-> 0,
                                             entry |-> work])
                /\ pc' = "count loop"
                /\ UNCHANGED <<result, reached>>
    /\ UNCHANGED <<work, solved, unique>>
    /\ UNCHANGED searchFrame

\* _count_solutions, lines 158-162: the loop places the next number that
\* passes _is_valid_placement and calls itself.
CountSolutionsPlace ==
    /\ pc = "count loop"
    /\ NextCandidate # 0
    /\ work' = [work EXCEPT ![TopFrame.row][TopFrame.col] = NextCandidate]
    /\ frames' = [frames EXCEPT ![Len(frames)].num = NextCandidate]
    /\ pc' = "count call"
    /\ UNCHANGED <<result, reached, solved, unique>>
    /\ UNCHANGED searchFrame

\* _count_solutions, line 169: the loop is exhausted, the call returns its
\* count.
CountSolutionsExhausted ==
    /\ pc = "count loop"
    /\ NextCandidate = 0
    /\ frames' = PopFrame
    /\ result' = TopFrame.count
    /\ pc' = "count return"
    /\ UNCHANGED <<work, reached, solved, unique>>
    /\ UNCHANGED searchFrame

\* _count_solutions, lines 162-167: the recursive call returned; its value
\* is added to count, the cell is reset, and the call returns count when
\* count >= max_count, or its loop goes on with the next number.
CountSolutionsAdd ==
    /\ pc = "count return"
    /\ frames # <<>>
    /\ LET count == TopFrame.count + result
       IN  /\ work' = [work EXCEPT ![TopFrame.row][TopFrame.col] = 0]
           /\ IF count >= MaxCount
              THEN /\ frames' = PopFrame
                   /\ result' = count
                   /\ UNCHANGED pc
              ELSE /\ frames' = [frames EXCEPT
                                    ![Len(frames)].count = count,
                                    ![Len(frames)].num = @ + 1]
                   /\ pc' = "count loop"
                   /\ UNCHANGED result
    /\ UNCHANGED <<reached, solved, unique>>
    /\ UNCHANGED searchFrame

\* has_unique_solution, lines 96-97: the top-level call returned its count.
HasUniqueSolutionEnd ==
    /\ pc = "count return"
    /\ frames = <<>>
    /\ unique' = (result = 1)
    /\ pc' = "counted"
    /\ UNCHANGED <<work, frames, result, reached, solved>>
    /\ UNCHANGED searchFrame

NextSearch ==
    \/ SolveBegin
    \/ SolveRecursiveEnter
    \/ SolveRecursivePlace
    \/ SolveRecursiveExhausted
    \/ SolveRecursivePropagate
    \/ SolveRecursiveBacktrack
    \/ SolveEnd
    \/ HasUniqueSolutionBegin
    \/ CountSolutionsEnter
    \/ CountSolutionsPlace
    \/ CountSolutionsExhausted
    \/ CountSolutionsAdd
    \/ HasUniqueSolutionEnd

(***************************************************************************)
(* Specifications of the generator                                         *)
(***************************************************************************)

\* solver.solve(puzzle, box_width, box_height) on the puzzle generate
\* returned.
PuzzleSolve ==
    /\ pc = "done"
    /\ solved' = SolveCall(puzzle, bw, bh).value
    /\ placements' = SolveCall(puzzle, bw, bh).placed
    /\ puzzle' = BoardAfterSolve(puzzle, bw, bh)
    /\ before' = puzzle
    /\ pc' = "solve returned"
    /\ UNCHANGED <<bw, bh, difficulty, board, stack, ret, removeCount,
                   grid, unique>>
    /\ UNCHANGED otherVars

\* Box dimensions (box_width, box_height) of the boards generate is run on.
GenDims == {<<1, 1>>, <<2, 1>>, <<1, 2>>, <<3, 1>>, <<1, 3>>}

\* Box dimensions _generate_complete_board is run on.
FillDims == GenDims \cup {<<2, 2>>}

\* The difficulty arguments generate is called with.
DifficultyInputs ==
    {"EASY", "MEDIUM", "HARD", "easy", "medium", "hard", "Medium",
     "expert", "INVALID", ""}

\* No game exists.
NoGame ==
    /\ played = None
    /\ current_player = None
    /\ success = None
    /\ stats = None
    /\ calls = None
    /\ state = None
    /\ boardCells = None
    /\ raised = None
    /\ called = None
    /\ now = None
    /\ startTime = None
    /\ endTime = None
    /\ pauseTime = None
    /\ totalPaused = None

\* No call of the generator or of the solver has run.
IdleEngine ==
    /\ before = None
    /\ drawn = None
    /\ probe = None
    /\ board = None
    /\ stack = <<>>
    /\ NoSearch
    /\ ret = FALSE
    /\ puzzle = None
    /\ removeCount = 0
    /\ grid = None
    /\ solved = None
    /\ placements = 0
    /\ unique = FALSE

\* No call has run: the state shared by all initial states.
Idle ==
    /\ NoGame
    /\ IdleEngine

\* A call generate(box_width, box_height, difficulty) is about to run.
Init ==
    /\ \E d \in GenDims : bw = d[1] /\ bh = d[2]
    /\ difficulty \in DifficultyInputs
    /\ Idle
    /\ pc = "generate"

FillNext ==
    \/ CompleteBoardEnter
    \/ FillEnter
    \/ FillPlace
    \/ FillExhausted
    \/ FillPropagate
    \/ FillBacktrack
    \/ CompleteBoardReturn

Next ==
    \/ GenerateEnter
    \/ FillNext
    \/ GenerateRemove
    \/ PuzzleSolve

Spec == Init /\ [][Next]_vars

\* Box dimensions that are not both positive: one of them is zero, or one
\* is negative and the other is not.  board_size is then zero or negative
\* and every range(board_size) is empty.
NonPositiveDims ==
    {<<0, 0>>, <<0, 1>>, <<1, 0>>, <<0, 2>>, <<2, 0>>, <<0, 3>>, <<3, 0>>,
     <<-1, 0>>, <<0, -1>>, <<-1, 1>>, <<1, -1>>, <<-1, 2>>, <<2, -1>>}

\* A call generate(box_width, box_height, difficulty) with dimensions of
\* NonPositiveDims is about to run.
InitDims ==
    /\ \E d \in NonPositiveDims : bw = d[1] /\ bh = d[2]
    /\ difficulty \in DifficultyInputs
    /\ Idle
    /\ pc = "generate"

\* generate on dimensions of any sign.
SpecDims == (Init \/ InitDims) /\ [][Next]_vars

\* A call _generate_complete_board(box_width, box_height) is about to run.
InitFill ==
    /\ \E d \in FillDims : bw = d[1] /\ bh = d[2]
    /\ difficulty = "MEDIUM"
    /\ Idle
    /\ pc = "complete_board"

SpecFill == InitFill /\ [][FillNext]_vars

(***************************************************************************)
(* Reference: the solution grids, by the rules of the game                 *)
(***************************************************************************)

\* The cells of the box (box_row, box_col) counts from the top left.
BoxCells(box_row, box_col, box_width, box_height) ==
    ((box_row * box_height) .. (box_row * box_height + box_height - 1)) \X
    ((box_col * box_width) .. (box_col * box_width + box_width - 1))

\* The rows, the columns and the boxes of the grid, each as a set of cells.
Units(box_width, box_height) ==
    LET n == box_width * box_height
    IN  {{r} \X Range(n) : r \in Range(n)}
        \cup {Range(n) \X {c} : c \in Range(n)}
        \cup {BoxCells(i, j, box_width, box_height) :
                 i \in Range(box_width), j \in Range(box_height)}

\* No non-zero value occurs twice in a row, a column or a box of g.
NoDuplicates(g, box_width, box_height) ==
    \A u \in Units(box_width, box_height) :
       \A p \in u : \A q \in u :
          (p # q /\ g[p[1]][p[2]] # 0) => g[p[1]][p[2]] # g[q[1]][q[2]]

\* Every row, column and box of g is a permutation of 1..N.
IsSolutionGrid(g, box_width, box_height) ==
    \A u \in Units(box_width, box_height) :
       {g[p[1]][p[2]] : p \in u} = 1 .. (box_width * box_height)

\* The rows that are permutations of 1..n.
PermRows(n) ==
    {f \in [Range(n) -> 1 .. n] : \A i \in Range(n) : \A j \in Range(n) :
        i # j => f[i] # f[j]}

RECURSIVE GrowRows(_, _, _, _)
\* The grids of k .. N rows that extend a grid of `partial` by rows that are
\* permutations, keeping the columns and the boxes free of duplicates.
GrowRows(partial, k, box_width, box_height) ==
    LET n == box_width * box_height
        fits(g, q) ==
            \A r \in Range(k) : \A c \in Range(n) :
               /\ g[r][c] # q[c]
               /\ (r \div box_height = k \div box_height) =>
                     \A c2 \in Range(n) :
                        (c2 \div box_width = c \div box_width) =>
                           g[r][c2] # q[c]
        grown == {[r \in Range(k + 1) |-> IF r < k THEN x[1][r] ELSE x[2]] :
                    x \in {y \in partial \X PermRows(n) : fits(y[1], y[2])}}
    IN  IF k = n THEN partial
        ELSE GrowRows(grown, k + 1, box_width, box_height)

\* Box dimensions of the boards the solver is run on.
SolveDims == {<<2, 1>>, <<1, 2>>, <<3, 1>>, <<2, 2>>}

\* For each box dimension, all the grids in which every row, column and box
\* is a permutation of 1..N.
SolutionGrids ==
    [d \in SolveDims |->
        {g \in GrowRows({<<>>}, 0, d[1], d[2]) :
            IsSolutionGrid(g, d[1], d[2])}]

\* g2 has the value of g at every cell where g is not empty.
Extends(g2, g, n) ==
    \A p \in Positions(n) : g[p[1]][p[2]] # 0 => g2[p[1]][p[2]] = g[p[1]][p[2]]

\* The valid completions of g: the solution grids that keep its values.
Completions(g, box_width, box_height) ==
    {s \in SolutionGrids[<<box_width, box_height>>] :
        Extends(s, g, box_width * box_height)}

(***************************************************************************)
(* Specification of the solver: solve and has_unique_solution on the       *)
(* grids of a caller                                                       *)
(***************************************************************************)

\* Bound: the largest number of non-zero cells of a grid a caller fills in
\* starting from the empty grid.
MaxGivens == 3

\* Bound: the largest number of cells of a solved grid a caller overwrites
\* (with 0 or with any value).
MaxEdits == 1

\* Box dimensions for which the caller's grids are all the grids over 0..N.
FullDims == {<<2, 1>>, <<1, 2>>}

\* The cells a caller fills in starting from the empty grid: those of the
\* first two rows.
GivenCells(n) == Range(2) \X Range(n)

\* The n x n grid that holds f[p] at the positions p of DOMAIN f and the
\* value of base elsewhere.
Overwrite(base, f, n) ==
    [r \in Range(n) |-> [c \in Range(n) |->
        IF <<r, c>> \in DOMAIN f THEN f[<<r, c>>] ELSE base[r][c]]]

\* A solved grid: the rows of the first band are 1..N shifted by multiples
\* of box_width, and each further band is the band above it shifted by one.
SeedGrid(box_width, box_height) ==
    LET n == box_width * box_height
    IN  [r \in Range(n) |-> [c \in Range(n) |->
            (((r % box_height) * box_width + (r \div box_height) + c) % n)
            + 1]]

\* A caller holds a solver and a grid: any grid over 0..N on the boards of
\* FullDims; on the larger boards a grid with at most MaxGivens non-zero
\* cells, all in the first two rows, or a solved grid with at most MaxEdits
\* cells overwritten, or any solved grid.
InitSolve ==
    /\ \E d \in SolveDims :
          LET n == d[1] * d[2]
          IN  /\ bw = d[1]
              /\ bh = d[2]
              /\ \/ /\ d \in FullDims
                    /\ grid \in [Range(n) -> [Range(n) -> 0 .. n]]
                 \/ /\ d \notin FullDims
                    /\ \E S \in SUBSET GivenCells(n) :
                          /\ Cardinality(S) <= MaxGivens
                          /\ \E f \in [S -> 1 .. n] :
                                grid = Overwrite(ZeroBoard(n), f, n)
                 \/ /\ d \notin FullDims
                    /\ \E S \in SUBSET Positions(n) :
                          /\ Cardinality(S) <= MaxEdits
                          /\ \E f \in [S -> 0 .. n] :
                                grid = Overwrite(SeedGrid(d[1], d[2]), f, n)
                 \/ /\ d \notin FullDims
                    /\ grid \in SolutionGrids[d]
    /\ difficulty = "MEDIUM"
    /\ before = None
    /\ drawn = None
    /\ probe = None
    /\ NoGame
    /\ board = None
    /\ stack = <<>>
    /\ NoSearch
    /\ ret = FALSE
    /\ puzzle = None
    /\ removeCount = 0
    /\ solved = None
    /\ placements = 0
    /\ unique = FALSE
    /\ pc = "caller"

\* solver.solve(grid, box_width, box_height)
CallSolve ==
    /\ pc = "caller"
    /\ solved' = SolveCall(grid, bw, bh).value
    /\ placements' = SolveCall(grid, bw, bh).placed
    /\ grid' = BoardAfterSolve(grid, bw, bh)
    /\ before' = grid
    /\ pc' = "solve returned"
    /\ UNCHANGED <<bw, bh, difficulty, board, stack, ret, puzzle,
                   removeCount, unique>>
    /\ UNCHANGED otherVars

\* solver.has_unique_solution(grid, box_width, box_height)
CallHasUniqueSolution ==
    /\ pc = "caller"
    /\ unique' = HasUniqueSolution(grid, bw, bh)
    /\ grid' = BoardAfterHasUniqueSolution(grid, bw, bh)
    /\ before' = grid
    /\ pc' = "has_unique_solution returned"
    /\ UNCHANGED <<bw, bh, difficulty, board, stack, ret, puzzle,
                   removeCount, solved, placements>>
    /\ UNCHANGED otherVars

NextSolve ==
    \/ CallSolve
    \/ CallHasUniqueSolution

SpecSolve == InitSolve /\ [][NextSolve]_vars

\* The search of the solver, step by step, on the grids of the caller.
SpecSearch == InitSolve /\ [][NextSearch]_vars

\* The two backtracking searches step by step: _fill_board on the empty
\* board and the solver on the grids of the caller.
InitUnwind == InitFill \/ InitSolve

NextUnwind == FillNext \/ NextSearch

SpecUnwind == InitUnwind /\ [][NextUnwind]_vars

\* Where a search stands: the statement it is at, its call stack and the grid
\* it works on. Every step of _fill_board, _solve_recursive and
\* _count_solutions changes it.
callState == <<pc, stack, frames, board, work>>

\* The calls whose return is checked: _generate_complete_board on the boards
\* of FillDims, solve and has_unique_solution on the caller's grids of the
\* boards up to 3 x 3.
InitTerminate == InitFill \/ (InitSolve /\ bw * bh <= 3)

\* The two searches as running programs: a call that can take a step takes
\* one.
SpecTerminate == InitTerminate /\ [][NextUnwind]_vars /\ WF_callState(NextUnwind)

(***************************************************************************)
(* Specification of the carving of a 4 x 4 puzzle: generate from the       *)
(* return of _generate_complete_board on, and the solver on its result     *)
(***************************************************************************)

\* generate has filled the board of 2 x 2 boxes and is about to call
\* _remove_cells.  The complete board is the first solution grid in
\* row-major order, one of the boards _generate_complete_board returns.
InitCarve ==
    /\ bw = 2
    /\ bh = 2
    /\ difficulty \in DOMAIN RemovalRates
    /\ board = SeedGrid(2, 2)
    /\ before = None
    /\ drawn = None
    /\ probe = None
    /\ NoGame
    /\ stack = <<>>
    /\ NoSearch
    /\ ret = TRUE
    /\ puzzle = None
    /\ removeCount = 0
    /\ grid = None
    /\ solved = None
    /\ placements = 0
    /\ unique = FALSE
    /\ pc = "filled"

\* solver.has_unique_solution(puzzle, box_width, box_height) on the puzzle
\* generate returned.
PuzzleHasUniqueSolution ==
    /\ pc = "done"
    /\ unique' = HasUniqueSolution(puzzle, bw, bh)
    /\ puzzle' = BoardAfterHasUniqueSolution(puzzle, bw, bh)
    /\ before' = puzzle
    /\ pc' = "has_unique_solution returned"
    /\ UNCHANGED <<bw, bh, difficulty, board, stack, ret,
                   removeCount, grid, solved, placements>>
    /\ UNCHANGED otherVars

NextCarve ==
    \/ GenerateRemove
    \/ PuzzleSolve
    \/ PuzzleHasUniqueSolution

SpecCarve == InitCarve /\ [][NextCarve]_vars

(***************************************************************************)
(* Specification of generate followed by the solver on its puzzle: the     *)
(* boards of GenDims from the call of generate on, and the board of 2 x 2  *)
(* boxes from the return of _generate_complete_board on                    *)
(***************************************************************************)

InitPuzzle == Init \/ InitCarve

NextPuzzle == Next \/ NextCarve

SpecPuzzle == InitPuzzle /\ [][NextPuzzle]_vars

(***************************************************************************)
(* Specification of the empty-cell counts of the three difficulties: one   *)
(* generate call per difficulty on boards of the same size, each followed  *)
(* by a count of the zero cells of its puzzle                              *)
(***************************************************************************)

\* Box dimensions of the boards of 4, 6, 9 and 16 rows.
CountDims == {<<2, 2>>, <<3, 2>>, <<3, 3>>, <<4, 4>>}

\* A caller is about to generate one puzzle per difficulty.
InitCounts ==
    /\ \E d \in CountDims : bw = d[1] /\ bh = d[2]
    /\ difficulty = "EASY"
    /\ Idle
    /\ pc = "counts"

\* generate(box_width, box_height, diff), then the count of the zero cells
\* of the puzzle.  _generate_complete_board returns a board without zero
\* cells (C1), and the loop of _remove_cells zeroes one cell of it at each
\* of its passes: cells_to_remove of them, or all when there are fewer.
GenerateAndCount ==
    /\ pc = "counts"
    /\ \E diff \in DOMAIN RemovalRates \ DOMAIN drawn :
          \E cells_to_remove \in RemoveRange(bw, bh, diff) :
             LET removed == Min(cells_to_remove,
                                Cardinality(Positions(bw * bh)))
             IN  /\ difficulty' = diff
                 /\ removeCount' = cells_to_remove
                 /\ drawn' = [d \in DOMAIN drawn \cup {diff} |->
                                 IF d = diff THEN removed ELSE drawn[d]]
    /\ UNCHANGED <<bw, bh, board, stack, ret, puzzle, grid, solved,
                   placements, unique, pc, before, probe, gameVars, appVars, searchVars>>

SpecCounts == InitCounts /\ [][GenerateAndCount]_vars

(***************************************************************************)
(* Specification of _is_valid_placement: the generator's copy and the      *)
(* solver's copy on the same arguments                                     *)
(***************************************************************************)

\* Bound: the largest number of non-zero cells of the grids of the larger
\* boards that _is_valid_placement is probed on.
MaxPlaced == 1

\* Box dimensions of the boards _is_valid_placement is probed on.
PlacementDims == SolveDims \cup {<<3, 2>>, <<2, 3>>}

\* The cells that hold the non-zero values of the grids probed: those of the
\* first three rows and columns.
PlacedCells(n) == {p \in Positions(n) : p[1] < 3 /\ p[2] < 3}

\* A caller holds a grid, an in-bounds cell and a value of 1..N.  The grid
\* is any grid over 0..N on the boards of FullDims, a grid with at most
\* MaxPlaced non-zero cells on the larger boards, or a solved grid.
InitPlacement ==
    /\ \E d \in PlacementDims :
          LET n == d[1] * d[2]
          IN  /\ bw = d[1]
              /\ bh = d[2]
              /\ \/ /\ d \in FullDims
                    /\ grid \in [Range(n) -> [Range(n) -> 0 .. n]]
                 \/ /\ d \notin FullDims
                    /\ \E S \in SUBSET PlacedCells(n) :
                          /\ Cardinality(S) <= MaxPlaced
                          /\ \E f \in [S -> 1 .. n] :
                                grid = Overwrite(ZeroBoard(n), f, n)
                 \/ grid = SeedGrid(d[1], d[2])
              /\ \E p \in Positions(n) : \E num \in 1 .. n :
                    probe = [row |-> p[1], col |-> p[2], num |-> num,
                             generator |-> FALSE, solver |-> FALSE]
    /\ before = grid
    /\ difficulty = "MEDIUM"
    /\ drawn = None
    /\ NoGame
    /\ board = None
    /\ stack = <<>>
    /\ NoSearch
    /\ ret = FALSE
    /\ puzzle = None
    /\ removeCount = 0
    /\ solved = None
    /\ placements = 0
    /\ unique = FALSE
    /\ pc = "probe"

\* generator._is_valid_placement(grid, row, col, num, box_width, box_height)
CallGenIsValidPlacement ==
    /\ pc = "probe"
    /\ probe' = [probe EXCEPT !.generator =
                    GenIsValidPlacement(grid, probe.row, probe.col,
                                        probe.num, bw, bh)]
    /\ pc' = "generator probed"
    /\ UNCHANGED <<bw, bh, difficulty, board, stack, ret, puzzle,
                   removeCount, grid, solved, placements, unique,
                   before, drawn, gameVars, appVars, searchVars>>

\* solver._is_valid_placement(grid, row, col, num, box_width, box_height)
CallIsValidPlacement ==
    /\ pc = "generator probed"
    /\ probe' = [probe EXCEPT !.solver =
                    IsValidPlacement(grid, probe.row, probe.col,
                                     probe.num, bw, bh)]
    /\ pc' = "probed"
    /\ UNCHANGED <<bw, bh, difficulty, board, stack, ret, puzzle,
                   removeCount, grid, solved, placements, unique,
                   before, drawn, gameVars, appVars, searchVars>>

NextPlacement ==
    \/ CallGenIsValidPlacement
    \/ CallIsValidPlacement

SpecPlacement == InitPlacement /\ [][NextPlacement]_vars

(***************************************************************************)
(* StatisticsRepository                                                    *)
(*                                                                         *)
(* The statistics file holds a JSON object of objects: a dict by player    *)
(* name of dicts by difficulty of the three figures.  A dict is a function *)
(* on the set of its keys.  Times are whole numbers of seconds.            *)
(***************************************************************************)

\* The file _ensure_stats_file_exists writes: the dict {}.
EmptyStatistics == <<>>

\* The dict d with d[key] = value assigned.
DictPut(d, key, value) ==
    [k \in DOMAIN d \cup {key} |-> IF k = key THEN value ELSE d[k]]

\* StatisticsRepository.get_statistics
GetStatistics(all_stats, player_name, diff) ==
    LET player_stats ==
            IF player_name \in DOMAIN all_stats
            THEN all_stats[player_name] ELSE <<>>
    IN  IF diff \in DOMAIN player_stats
        THEN player_stats[diff]
        ELSE [games_played |-> 0, games_won |-> 0, total_time |-> 0]

\* update_statistics with all_stats[player_name] = {} assigned for every
\* player (the test of line 133 left out).
UpdateStatisticsNewPlayer(all_stats, player_name, diff, won, time_taken) ==
    IF time_taken < 0
    THEN [stats |-> all_stats, raised |-> "ValueError"]
    ELSE LET with_player == DictPut(all_stats, player_name, <<>>)
             with_difficulty ==
                 DictPut(with_player, player_name,
                         DictPut(with_player[player_name], diff,
                                 [games_played |-> 0, games_won |-> 0,
                                  total_time |-> 0]))
             old == with_difficulty[player_name][diff]
             difficulty_stats ==
                 [games_played |-> old.games_played + 1,
                  games_won |-> IF won THEN old.games_won + 1
                                ELSE old.games_won,
                  total_time |-> old.total_time + time_taken]
         IN  [stats |-> DictPut(with_difficulty, player_name,
                                DictPut(with_difficulty[player_name], diff,
                                        difficulty_stats)),
              raised |-> "none"]

\* StatisticsRepository.update_statistics: the file after the call and the
\* exception raised.
UpdateStatistics(all_stats, player_name, diff, won, time_taken) ==
    IF time_taken < 0
    THEN [stats |-> all_stats, raised |-> "ValueError"]
    ELSE LET with_player ==
                 IF player_name \notin DOMAIN all_stats
                 THEN DictPut(all_stats, player_name, <<>>)
                 ELSE all_stats
             with_difficulty ==
                 IF diff \notin DOMAIN with_player[player_name]
                 THEN DictPut(with_player, player_name,
                              DictPut(with_player[player_name], diff,
                                      [games_played |-> 0, games_won |-> 0,
                                       total_time |-> 0]))
                 ELSE with_player
             old == with_difficulty[player_name][diff]
             difficulty_stats ==
                 [games_played |-> old.games_played + 1,
                  games_won |-> IF won THEN old.games_won + 1
                                ELSE old.games_won,
                  total_time |-> old.total_time + time_taken]
         IN  [stats |-> DictPut(with_difficulty, player_name,
                                DictPut(with_difficulty[player_name], diff,
                                        difficulty_stats)),
              raised |-> "none"]

\* The number of update_statistics calls of a run.
MaxCalls == 3

\* The player names of the calls.
PlayerNames == {"ann", "bob"}

\* The difficulty arguments of the calls.
StatisticsDifficulties == {"easy", "hard"}

\* The time_taken arguments of the calls: one of them negative.
TimesTaken == {-1, 0, 2}

\* A repository on a statistics file that did not exist.
InitStatistics ==
    /\ bw = 0
    /\ bh = 0
    /\ difficulty = "MEDIUM"
    /\ Idle
    /\ stats = EmptyStatistics
    /\ calls = <<>>
    /\ pc = "statistics"

\* repository.update_statistics(player_name, difficulty, won, time_taken)
CallUpdateStatistics ==
    /\ pc = "statistics"
    /\ Len(calls) < MaxCalls
    /\ \E player_name \in PlayerNames :
          \E diff \in StatisticsDifficulties :
             \E won \in BOOLEAN :
                \E time_taken \in TimesTaken :
                   LET updated == UpdateStatistics(stats, player_name, diff,
                                                   won, time_taken)
                   IN  /\ stats' = updated.stats
                       /\ raised' = updated.raised
                       /\ calls' = Append(calls,
                                          [player_name |-> player_name,
                                           difficulty |-> diff,
                                           won |-> won,
                                           time_taken |-> time_taken])
    /\ UNCHANGED <<state, boardCells, called, now, startTime, endTime,
                   pauseTime, totalPaused, played, current_player,
                   success>>
    /\ UNCHANGED engineVars

SpecStatistics == InitStatistics /\ [][CallUpdateStatistics]_vars

(***************************************************************************)
(* Game, Board and Cell (domain/entities)                                  *)
(*                                                                         *)
(* A cell is a record of its value (0 for CellValue(None)) and its         *)
(* is_fixed flag; Board._cells is a function from positions to cells.  An  *)
(* operation that can raise returns the exception's name in a field        *)
(* raised, "none" when it returns normally.  The clock stands still while  *)
(* the operations of SpecGame run: every datetime.now() returns now.  In   *)
(* SpecClock the clock advances between the operations.                    *)
(***************************************************************************)

\* The value None of a time field (datetime | None).
NoTime == -1

\* Cell.set_value with no look at is_fixed (lines 37-39 left out).
CellSetValueOnFixed(cell, new_value) ==
    [cell |-> [cell EXCEPT !.value = new_value], raised |-> "none"]

\* Cell.set_value.  Every CellValue of a board has max_value = size.rows,
\* so the check of lines 41-48 never fires.
CellSetValue(cell, new_value) ==
    IF cell.is_fixed
    THEN [cell |-> cell, raised |-> "ValueError"]
    ELSE [cell |-> [cell EXCEPT !.value = new_value], raised |-> "none"]

\* Cell.clear
CellClear(cell) ==
    IF cell.is_fixed
    THEN [cell |-> cell, raised |-> "ValueError"]
    ELSE [cell |-> [cell EXCEPT !.value = 0], raised |-> "none"]

\* Board._validate_position passes.  (Position rejects negative
\* coordinates at its construction.)
InBounds(position, rows) ==
    /\ 0 <= position[1] /\ position[1] < rows
    /\ 0 <= position[2] /\ position[2] < rows

\* CellValue(value, max_value).__post_init__ accepts an integer value.
CellValueAccepts(value, max_value) ==
    /\ max_value > 0
    /\ ~ (value < 1 \/ value > max_value)

\* Board.set_cell_value(position, value, is_fixed) for an integer value.
BoardSetCellValue(cs, rows, position, value, is_fixed) ==
    IF ~ InBounds(position, rows)
    THEN [cells |-> cs, raised |-> "IndexError"]
    ELSE IF ~ CellValueAccepts(value, rows)
    THEN [cells |-> cs, raised |-> "ValueError"]
    ELSE IF is_fixed
    THEN [cells |-> [cs EXCEPT ![position] =
                        [value |-> value, is_fixed |-> TRUE]],
          raised |-> "none"]
    ELSE LET set == CellSetValue(cs[position], value)
         IN  [cells |-> [cs EXCEPT ![position] = set.cell],
              raised |-> set.raised]

\* Board.clear_cell(position)
BoardClearCell(cs, rows, position) ==
    IF ~ InBounds(position, rows)
    THEN [cells |-> cs, raised |-> "IndexError"]
    ELSE LET cleared == CellClear(cs[position])
         IN  [cells |-> [cs EXCEPT ![position] = cleared.cell],
              raised |-> cleared.raised]

\* Board(size) with the non-zero cells of a puzzle grid set as fixed cells,
\* as StartNewGameUseCase.execute builds the board of a game.
NewBoard(puzzle_grid, rows) ==
    [position \in Positions(rows) |->
        IF puzzle_grid[position[1]][position[2]] # 0
        THEN [value |-> puzzle_grid[position[1]][position[2]],
              is_fixed |-> TRUE]
        ELSE [value |-> 0, is_fixed |-> FALSE]]

\* Box dimensions of the board of the game.
GameDims == {<<2, 1>>, <<1, 2>>}

\* The positions a move names: those of the board, and two out of bounds.
MovePositions(rows) == Positions(rows) \cup {<<rows, 0>>, <<0, rows>>}

\* The values a move places: 1..rows, and 0 and rows + 1 out of range.
MoveValues(rows) == 0 .. (rows + 1)

\* The puzzle grids a game is built from: every grid over 0..N on the
\* boards of two rows; on a larger board the grids that are empty but for
\* the cells (1, 1) and (0, 3), which hold 0, 1 or 2.
PuzzleGrids(rows) ==
    IF rows <= 2
    THEN [Range(rows) -> [Range(rows) -> 0 .. rows]]
    ELSE {Overwrite(ZeroBoard(rows), f, rows) :
             f \in [{<<1, 1>>, <<0, 3>>} -> 0 .. 2]}

\* Game(board, player, difficulty) on a board of box dimensions d built
\* from any puzzle grid.
NewGame(d) ==
    /\ bw = d[1]
    /\ bh = d[2]
    /\ puzzle \in PuzzleGrids(d[1] * d[2])
    /\ boardCells = NewBoard(puzzle, bw * bh)
    /\ state = "NOT_STARTED"
    /\ raised = "none"
    /\ called = [op |-> "Game"]
    /\ now = 0
    /\ startTime = NoTime
    /\ endTime = NoTime
    /\ pauseTime = NoTime
    /\ totalPaused = 0
    /\ played = 0
    /\ current_player = ""
    /\ success = "none"
    /\ stats = EmptyStatistics
    /\ calls = <<>>
    /\ difficulty = "MEDIUM"
    /\ before = None
    /\ drawn = None
    /\ probe = None
    /\ board = None
    /\ stack = <<>>
    /\ NoSearch
    /\ ret = FALSE
    /\ removeCount = 0
    /\ grid = None
    /\ solved = None
    /\ placements = 0
    /\ unique = FALSE
    /\ pc = "game"

\* A game on a board of GameDims.
InitGame == \E d \in GameDims : NewGame(d)

\* The call game.make_move(position, value): clear tells that value is
\* None, and value is the integer otherwise.
MoveCall(position, clear, value) ==
    [op |-> "make_move", position |-> position, clear |-> clear,
     value |-> value]

\* Game.start from any state (the check of lines 59-61 left out).
StartFromAnyState ==
    /\ pc = "game"
    /\ called' = [op |-> "start"]
    /\ raised' = "none"
    /\ state' = "IN_PROGRESS"
    /\ startTime' = now
    /\ UNCHANGED <<boardCells, now, endTime, pauseTime, totalPaused>>
    /\ UNCHANGED <<engineVars, appVars>>

\* Game.start
Start ==
    /\ pc = "game"
    /\ called' = [op |-> "start"]
    /\ IF state # "NOT_STARTED"
       THEN /\ raised' = "ValueError"
            /\ UNCHANGED <<state, startTime>>
       ELSE /\ raised' = "none"
            /\ state' = "IN_PROGRESS"
            /\ startTime' = now
    /\ UNCHANGED <<boardCells, now, endTime, pauseTime, totalPaused>>
    /\ UNCHANGED <<engineVars, appVars>>

\* Game.pause
Pause ==
    /\ pc = "game"
    /\ called' = [op |-> "pause"]
    /\ IF state # "IN_PROGRESS"
       THEN /\ raised' = "ValueError"
            /\ UNCHANGED <<state, pauseTime>>
       ELSE /\ raised' = "none"
            /\ state' = "PAUSED"
            /\ pauseTime' = now
    /\ UNCHANGED <<boardCells, now, startTime, endTime, totalPaused>>
    /\ UNCHANGED <<engineVars, appVars>>

\* Game.resume
Resume ==
    /\ pc = "game"
    /\ called' = [op |-> "resume"]
    /\ IF state # "PAUSED"
       THEN /\ raised' = "ValueError"
            /\ UNCHANGED <<state, pauseTime, totalPaused>>
       ELSE /\ raised' = "none"
            /\ IF pauseTime # NoTime
               THEN /\ totalPaused' = totalPaused + (now - pauseTime)
                    /\ pauseTime' = NoTime
               ELSE UNCHANGED <<pauseTime, totalPaused>>
            /\ state' = "IN_PROGRESS"
    /\ UNCHANGED <<boardCells, now, startTime, endTime>>
    /\ UNCHANGED <<engineVars, appVars>>

\* Game.make_move with no look at the state (lines 107-109 left out).
MakeMoveInAnyState ==
    /\ pc = "game"
    /\ \E position \in MovePositions(bw * bh) :
          \/ LET cleared == BoardClearCell(boardCells, bw * bh, position)
             IN  /\ called' = MoveCall(position, TRUE, 0)
                 /\ boardCells' = cleared.cells
                 /\ raised' = cleared.raised
          \/ \E value \in MoveValues(bw * bh) :
                LET set == BoardSetCellValue(boardCells, bw * bh,
                                             position, value, FALSE)
                IN  /\ called' = MoveCall(position, FALSE, value)
                    /\ boardCells' = set.cells
                    /\ raised' = set.raised
    /\ UNCHANGED <<state, now, startTime, endTime, pauseTime, totalPaused>>
    /\ UNCHANGED <<engineVars, appVars>>

\* Game.make_move(position, value): value None clears the cell, an integer
\* value is placed.
MakeMove ==
    /\ pc = "game"
    /\ \E position \in MovePositions(bw * bh) :
          \/ /\ called' = MoveCall(position, TRUE, 0)
             /\ IF state # "IN_PROGRESS"
                THEN /\ raised' = "ValueError"
                     /\ UNCHANGED boardCells
                ELSE LET cleared == BoardClearCell(boardCells, bw * bh,
                                                   position)
                     IN  /\ boardCells' = cleared.cells
                         /\ raised' = cleared.raised
          \/ \E value \in MoveValues(bw * bh) :
                /\ called' = MoveCall(position, FALSE, value)
                /\ IF state # "IN_PROGRESS"
                   THEN /\ raised' = "ValueError"
                        /\ UNCHANGED boardCells
                   ELSE LET set == BoardSetCellValue(boardCells, bw * bh,
                                                     position, value, FALSE)
                        IN  /\ boardCells' = set.cells
                            /\ raised' = set.raised
    /\ UNCHANGED <<state, now, startTime, endTime, pauseTime, totalPaused>>
    /\ UNCHANGED <<engineVars, appVars>>

\* Game.mark_as_won
MarkAsWon ==
    /\ pc = "game"
    /\ called' = [op |-> "mark_as_won"]
    /\ IF state # "IN_PROGRESS"
       THEN /\ raised' = "ValueError"
            /\ UNCHANGED <<state, endTime>>
       ELSE /\ raised' = "none"
            /\ state' = "WON"
            /\ endTime' = now
    /\ UNCHANGED <<boardCells, now, startTime, pauseTime, totalPaused>>
    /\ UNCHANGED <<engineVars, appVars>>

\* Game.mark_as_lost
MarkAsLost ==
    /\ pc = "game"
    /\ called' = [op |-> "mark_as_lost"]
    /\ IF state # "IN_PROGRESS"
       THEN /\ raised' = "ValueError"
            /\ UNCHANGED <<state, endTime>>
       ELSE /\ raised' = "none"
            /\ state' = "LOST"
            /\ endTime' = now
    /\ UNCHANGED <<boardCells, now, startTime, pauseTime, totalPaused>>
    /\ UNCHANGED <<engineVars, appVars>>

NextGame ==
    \/ Start
    \/ Pause
    \/ Resume
    \/ MakeMove
    \/ MarkAsWon
    \/ MarkAsLost

SpecGame == InitGame /\ [][NextGame]_vars

(***************************************************************************)
(* The game under a running clock                                          *)
(***************************************************************************)

\* The clock readings: datetime.now() returns 0 .. MaxClock.
MaxClock == 5

\* Box dimensions of the board of the game under the clock.
ClockDims == {<<1, 1>>}

\* Game.elapsed_time with the paused duration not subtracted (line 161
\* returning total_time).
ElapsedTimeWithPauses ==
    IF startTime = NoTime THEN 0
    ELSE LET end_time ==
                 IF state = "PAUSED" /\ pauseTime # NoTime THEN pauseTime
                 ELSE IF endTime # NoTime THEN endTime
                 ELSE now
         IN  end_time - startTime

\* Game.elapsed_time; timedelta() is 0.
ElapsedTime ==
    IF startTime = NoTime THEN 0
    ELSE LET end_time ==
                 IF state = "PAUSED" /\ pauseTime # NoTime THEN pauseTime
                 ELSE IF endTime # NoTime THEN endTime
                 ELSE now
             total_time == end_time - startTime
         IN  total_time - totalPaused

\* The clock advances by one between two operations; the time counts as
\* played while the game is IN_PROGRESS.
Tick ==
    /\ pc = "game"
    /\ now < MaxClock
    /\ now' = now + 1
    /\ played' = IF state = "IN_PROGRESS" THEN played + 1 ELSE played
    /\ UNCHANGED <<state, boardCells, raised, called, startTime, endTime,
                   pauseTime, totalPaused>>
    /\ UNCHANGED <<engineVars, current_player, serviceVars>>

InitClock == \E d \in ClockDims : NewGame(d)

NextClock ==
    \/ NextGame
    \/ Tick

SpecClock == InitClock /\ [][NextClock]_vars

(***************************************************************************)
(* MakeMoveUseCase and SudokuValidator                                     *)
(***************************************************************************)

\* MakeMoveUseCase._board_to_list: 0 for an empty cell.
BoardToList(cs, rows) ==
    [row \in Range(rows) |-> [col \in Range(rows) |-> cs[<<row, col>>].value]]

\* SudokuValidator.is_valid_move without its look at the cell itself
\* (lines 112-114 left out).
IsValidMoveOnFilled(b, row, col, num, box_width, box_height) ==
    LET board_size == box_width * box_height
        box_start_row == (row \div box_height) * box_height
        box_start_col == (col \div box_width) * box_width
    IN  IF ~ (0 <= row /\ row < board_size /\ 0 <= col /\ col < board_size)
        THEN FALSE
        ELSE IF ~ (1 <= num /\ num <= board_size)
        THEN FALSE
        ELSE IF \E c \in Range(board_size) : b[row][c] = num
        THEN FALSE
        ELSE IF \E r \in Range(board_size) : b[r][col] = num
        THEN FALSE
        ELSE ~ \E r \in box_start_row .. (box_start_row + box_height - 1) :
                 \E c \in box_start_col .. (box_start_col + box_width - 1) :
                    b[r][c] = num

\* SudokuValidator.is_valid_move without its box constraint (line 125
\* returning True).
IsValidMoveNoBox(b, row, col, num, box_width, box_height) ==
    LET board_size == box_width * box_height
    IN  IF ~ (0 <= row /\ row < board_size /\ 0 <= col /\ col < board_size)
        THEN FALSE
        ELSE IF ~ (1 <= num /\ num <= board_size)
        THEN FALSE
        ELSE IF b[row][col] # 0
        THEN FALSE
        ELSE IF \E c \in Range(board_size) : b[row][c] = num
        THEN FALSE
        ELSE IF \E r \in Range(board_size) : b[r][col] = num
        THEN FALSE
        ELSE TRUE

\* SudokuValidator.is_valid_move
IsValidMove(b, row, col, num, box_width, box_height) ==
    LET board_size == box_width * box_height
        box_start_row == (row \div box_height) * box_height
        box_start_col == (col \div box_width) * box_width
    IN  IF ~ (0 <= row /\ row < board_size /\ 0 <= col /\ col < board_size)
        THEN FALSE
        ELSE IF ~ (1 <= num /\ num <= board_size)
        THEN FALSE
        ELSE IF b[row][col] # 0
        THEN FALSE
        ELSE IF \E c \in Range(board_size) : b[row][c] = num
        THEN FALSE
        ELSE IF \E r \in Range(board_size) : b[r][col] = num
        THEN FALSE
        ELSE ~ \E r \in box_start_row .. (box_start_row + box_height - 1) :
                 \E c \in box_start_col .. (box_start_col + box_width - 1) :
                    b[r][c] = num

\* Game.make_move as a function of the state and the cells of the game:
\* the cells after the call and the exception raised.
GameMakeMove(st, cs, rows, position, clear, value) ==
    IF st # "IN_PROGRESS"
    THEN [cells |-> cs, raised |-> "ValueError"]
    ELSE IF clear
    THEN BoardClearCell(cs, rows, position)
    ELSE BoardSetCellValue(cs, rows, position, value, FALSE)

\* MakeMoveUseCase._validate_input passes.
ValidateInput(rows, position, clear, value) ==
    /\ 0 <= position[1] /\ position[1] < rows
    /\ 0 <= position[2] /\ position[2] < rows
    /\ ~ (~ clear /\ ~ (1 <= value /\ value <= rows))

\* MakeMoveUseCase.execute(game, position, value): the cells of the board
\* after the call, the exception raised, and the bool returned ("none" when
\* the call raises).  box_cols is the box width and box_rows the box height.
UseCaseExecute(st, cs, box_width, box_height, position, clear, value) ==
    LET rows == box_width * box_height
        moved == GameMakeMove(st, cs, rows, position, clear, value)
        caught ==
            IF moved.raised = "none"
            THEN [cells |-> moved.cells, raised |-> "none",
                  success |-> "True"]
            ELSE IF moved.raised = "ValueError"
            THEN [cells |-> moved.cells, raised |-> "none",
                  success |-> "False"]
            ELSE [cells |-> moved.cells, raised |-> moved.raised,
                  success |-> "none"]
    IN  IF ~ ValidateInput(rows, position, clear, value)
        THEN [cells |-> cs, raised |-> "ValueError", success |-> "none"]
        ELSE IF clear
        THEN caught
        ELSE IF IsValidMove(BoardToList(cs, rows), position[1], position[2],
                            value, box_width, box_height)
        THEN caught
        ELSE [cells |-> cs, raised |-> "none", success |-> "False"]

\* Box dimensions of the board the use case is run on.
UseCaseDims == {<<2, 1>>, <<1, 2>>, <<2, 2>>}

\* The positions execute is called with: on a board of two rows those of
\* MovePositions; on a larger board (0, 0) with a cell of its box, one of
\* its row and one of its column, and a position out of bounds.
ExecutePositions(rows) ==
    IF rows <= 2
    THEN MovePositions(rows)
    ELSE {<<0, 0>>, <<1, 1>>, <<0, 2>>, <<2, 0>>, <<rows, 0>>}

\* The values execute is called with: 1 and 2, and 0 and rows + 1 out of
\* range.
ExecuteValues(rows) == {0, 1, 2, rows + 1}

\* The call use_case.execute(game, position, value)
ExecuteCall(position, clear, value) ==
    [op |-> "execute", position |-> position, clear |-> clear,
     value |-> value]

\* MakeMoveUseCase.execute on the game
Execute ==
    /\ pc = "game"
    /\ \E position \in ExecutePositions(bw * bh) :
          \E clear \in BOOLEAN :
             \E value \in IF clear THEN {0} ELSE ExecuteValues(bw * bh) :
                LET done == UseCaseExecute(state, boardCells, bw, bh,
                                           position, clear, value)
                IN  /\ called' = ExecuteCall(position, clear, value)
                    /\ boardCells' = done.cells
                    /\ raised' = done.raised
                    /\ success' = done.success
    /\ UNCHANGED <<state, now, startTime, endTime, pauseTime, totalPaused,
                   played, current_player, stats, calls>>
    /\ UNCHANGED engineVars

InitMoves == \E d \in UseCaseDims : NewGame(d)

NextMoves ==
    \/ Start
    \/ Pause
    \/ Resume
    \/ Execute
    \/ MarkAsWon
    \/ MarkAsLost

SpecMoves == InitMoves /\ [][NextMoves]_vars

(***************************************************************************)
(* AppController: make_move with the completion check and the statistics   *)
(* update                                                                  *)
(***************************************************************************)

\* str.lower() on the names of the Difficulty enumeration.
Lower(s) ==
    CASE s = "EASY" -> "easy"
      [] s = "MEDIUM" -> "medium"
      [] s = "HARD" -> "hard"
      [] OTHER -> s

\* Board.is_complete: no cell is empty.
BoardIsComplete(cs, rows) == \A position \in Positions(rows) : cs[position].value # 0

\* SudokuValidator._is_row_valid, _is_column_valid, _is_box_valid: the
\* non-zero values of the cells of a unit are all different.
IsUnitValid(b, unit) ==
    \A p \in unit : \A q \in unit :
        (p # q /\ b[p[1]][p[2]] # 0) => b[p[1]][p[2]] # b[q[1]][q[2]]

\* SudokuValidator.is_board_valid
IsBoardValid(b, box_width, box_height) ==
    LET board_size == box_width * box_height
        num_box_rows == board_size \div box_height
        num_box_cols == board_size \div box_width
    IN  /\ \A row \in Range(board_size) :
              IsUnitValid(b, {row} \X Range(board_size))
        /\ \A col \in Range(board_size) :
              IsUnitValid(b, Range(board_size) \X {col})
        /\ \A box_row \in Range(num_box_rows) :
              \A box_col \in Range(num_box_cols) :
                 IsUnitValid(b, BoxCells(box_row, box_col,
                                         box_width, box_height))

\* SudokuValidator.is_board_complete
IsBoardComplete(b, box_width, box_height) ==
    LET board_size == box_width * box_height
    IN  IF \E row \in Range(board_size) : \E col \in Range(board_size) :
              b[row][col] = 0
        THEN FALSE
        ELSE IsBoardValid(b, box_width, box_height)

\* CheckCompletionUseCase.execute
CheckCompletion(cs, box_width, box_height) ==
    IF ~ BoardIsComplete(cs, box_width * box_height)
    THEN FALSE
    ELSE IsBoardComplete(BoardToList(cs, box_width * box_height),
                         box_width, box_height)

\* UpdateStatisticsUseCase.execute: the file after the call, the exception
\* raised, and whether the repository was called.
UpdateStatisticsExecute(all_stats, player_name, diff, won, time_seconds) ==
    IF player_name = ""
    THEN [stats |-> all_stats, raised |-> "ValueError", updated |-> FALSE]
    ELSE IF Lower(diff) \notin {"easy", "medium", "hard"}
    THEN [stats |-> all_stats, raised |-> "ValueError", updated |-> FALSE]
    ELSE IF time_seconds < 0
    THEN [stats |-> all_stats, raised |-> "ValueError", updated |-> FALSE]
    ELSE LET done == UpdateStatistics(all_stats, player_name, diff, won,
                                      time_seconds)
         IN  [stats |-> done.stats, raised |-> done.raised, updated |-> TRUE]

\* Box dimensions of the board of the controller's game.
ControllerDims == {<<2, 1>>}

\* The puzzle grids the generator hands to start_new_game: a solved grid
\* with any of its cells set to 0.
ControllerPuzzles(d) ==
    LET rows == d[1] * d[2]
    IN  {Overwrite(g, [p \in S |-> 0], rows) :
            g \in SolutionGrids[d], S \in SUBSET Positions(rows)}

\* The state after controller.start_new_game(player_name, difficulty): the
\* game of StartNewGameUseCase.execute, started, and the player kept.
InitController ==
    /\ \E d \in ControllerDims :
          /\ bw = d[1]
          /\ bh = d[2]
          /\ puzzle \in ControllerPuzzles(d)
    /\ boardCells = NewBoard(puzzle, bw * bh)
    /\ \E diff \in StatisticsDifficulties : difficulty = Upper(diff)
    /\ current_player \in PlayerNames
    /\ state = "IN_PROGRESS"
    /\ raised = "none"
    /\ called = [op |-> "start_new_game"]
    /\ now = 0
    /\ startTime = 0
    /\ endTime = NoTime
    /\ pauseTime = NoTime
    /\ totalPaused = 0
    /\ played = 0
    /\ success = "none"
    /\ stats = EmptyStatistics
    /\ calls = <<>>
    /\ before = None
    /\ drawn = None
    /\ probe = None
    /\ board = None
    /\ stack = <<>>
    /\ NoSearch
    /\ ret = FALSE
    /\ removeCount = 0
    /\ grid = None
    /\ solved = None
    /\ placements = 0
    /\ unique = FALSE
    /\ pc = "game"

\* AppController.make_move(position, value) with
\* _handle_game_completion: the move through the use case; after a
\* successful move the completion check, and on a complete board the
\* statistics update, whose exceptions are caught.
ControllerMakeMove ==
    /\ pc = "game"
    /\ Len(calls) < MaxCalls
    /\ \E position \in ExecutePositions(bw * bh) :
          \E clear \in BOOLEAN :
             \E value \in IF clear THEN {0} ELSE ExecuteValues(bw * bh) :
                LET done == UseCaseExecute(state, boardCells, bw, bh,
                                           position, clear, value)
                    is_complete ==
                        /\ done.success = "True"
                        /\ CheckCompletion(done.cells, bw, bh)
                    recorded ==
                        UpdateStatisticsExecute(stats, current_player,
                                                Lower(difficulty), TRUE,
                                                ElapsedTime)
                IN  /\ called' = [op |-> "make_move"]
                    /\ boardCells' = done.cells
                    /\ raised' = done.raised
                    /\ success' = done.success
                    /\ stats' = IF is_complete THEN recorded.stats
                                ELSE stats
                    /\ calls' =
                          IF is_complete /\ recorded.updated
                          THEN Append(calls,
                                      [player_name |-> current_player,
                                       difficulty |-> Lower(difficulty),
                                       won |-> TRUE,
                                       time_taken |-> ElapsedTime])
                          ELSE calls
    /\ UNCHANGED <<state, now, startTime, endTime, pauseTime, totalPaused,
                   played, current_player>>
    /\ UNCHANGED engineVars

NextController ==
    \/ ControllerMakeMove
    \/ Tick

SpecController == InitController /\ [][NextController]_vars

(***************************************************************************)
(* Specification of the calls that take a grid: generate with the solver   *)
(* on its puzzle, and the solver on the grids of a caller                  *)
(***************************************************************************)

InitFrame == Init \/ InitSolve

NextFrame == Next \/ NextSolve

SpecFrame == InitFrame /\ [][NextFrame]_vars

(***************************************************************************)
(* Properties                                                              *)
(***************************************************************************)

\* C1: for every outcome of the shuffles, the top-level _fill_board call
\* returns True, and the board _generate_complete_board returns has no zero
\* cell and each of its rows, columns and boxes is a permutation of 1..N.
C1_FillComplete ==
    /\ (pc = "return" /\ stack = <<>>) => ret = TRUE
    /\ pc = "filled" =>
          /\ ZeroCount(board, bw * bh) = 0
          /\ IsSolutionGrid(board, bw, bh)

\* A board of 2 x 2 boxes has been filled, and not with the board that the
\* candidates in ascending order give.
C1_Witness ==
    /\ pc = "filled"
    /\ bw = 2
    /\ bh = 2
    /\ board # SeedGrid(2, 2)

\* C2: a grid returned by solve has no zero cell, and the validity scan
\* _is_initial_board_valid accepts it.
C2_SolveSound ==
    (pc = "solve returned" /\ solved # None) =>
       /\ ZeroCount(solved, bw * bh) = 0
       /\ IsInitialBoardValid(solved, bw, bh)

\* solve has returned a grid for an input with empty cells.
C2_Witness ==
    /\ pc = "solve returned"
    /\ solved # None
    /\ ZeroCount(grid, bw * bh) > 1

\* C3: on a grid that passes the validity scan, solve returns None exactly
\* when the grid has no valid completion, and otherwise it returns one of
\* the valid completions.
C3_SolveComplete ==
    (pc = "solve returned" /\ IsInitialBoardValid(grid, bw, bh)) =>
       /\ solved = None <=> Completions(grid, bw, bh) = {}
       /\ solved # None => solved \in Completions(grid, bw, bh)

\* solve has searched a grid that passes the scan and found no completion.
C3_Witness ==
    /\ pc = "solve returned"
    /\ IsInitialBoardValid(grid, bw, bh)
    /\ solved = None
    /\ placements > 0

\* C4: on a grid with the same non-zero value twice in a row, a column or a
\* box, solve returns None and its search has made no placement.
C4_RejectDuplicates ==
    (pc = "solve returned" /\ ~ NoDuplicates(grid, bw, bh)) =>
       /\ solved = None
       /\ placements = 0

\* solve has returned on a grid of 2 x 2 boxes whose only duplicate is in a
\* box, with cells left to fill.
C4_Witness ==
    /\ pc = "solve returned"
    /\ bw = 2
    /\ bh = 2
    /\ grid[0][0] = 1
    /\ grid[1][1] = 1
    /\ ZeroCount(grid, bw * bh) = 14

\* C5: on a grid that passes the validity scan, has_unique_solution returns
\* True exactly when the grid has exactly one valid completion.
C5_UniqueIffOne ==
    (pc = "has_unique_solution returned"
        /\ IsInitialBoardValid(grid, bw, bh)) =>
       (unique <=> Cardinality(Completions(grid, bw, bh)) = 1)

\* has_unique_solution has returned False on a grid that passes the scan and
\* has no completion at all.
C5_Witness ==
    /\ pc = "has_unique_solution returned"
    /\ IsInitialBoardValid(grid, bw, bh)
    /\ Completions(grid, bw, bh) = {}
    /\ ~ unique

\* C6: has_unique_solution returns False on every grid that has no valid
\* completion.
C6_NoSolutionNotUnique ==
    (pc = "has_unique_solution returned"
        /\ Completions(grid, bw, bh) = {}) => ~ unique

\* C7: has_unique_solution returns True on every puzzle generate returns.
C7_GeneratedUnique ==
    pc = "has_unique_solution returned" => unique

C9_RemovedCount ==
    LET cells == (bw * bh) * (bw * bh)
        range ==
            CASE difficulty = "EASY" ->
                    ((cells * 30) \div 100) .. ((cells * 40) \div 100)
              [] difficulty = "MEDIUM" ->
                    ((cells * 45) \div 100) .. ((cells * 55) \div 100)
              [] difficulty = "HARD" ->
                    ((cells * 60) \div 100) .. ((cells * 65) \div 100)
    IN
    (pc = "done" /\ difficulty \in {"EASY", "MEDIUM", "HARD"}) =>
       /\ ZeroCount(puzzle, bw * bh) = removeCount
       /\ removeCount \in range
       /\ \A p \in Positions(bw * bh) :
             puzzle[p[1]][p[2]] # 0 => puzzle[p[1]][p[2]] = board[p[1]][p[2]]

\* generate has returned an EASY puzzle of a 3 x 3 board with the largest
\* count of its range removed.
C9_Witness ==
    /\ pc = "done"
    /\ difficulty = "EASY"
    /\ bw * bh = 3
    /\ removeCount = 3
    /\ ZeroCount(puzzle, bw * bh) = 3

\* C10 as stated: for all positive box dimensions the puzzle holds at least
\* one zero cell and at least one non-zero cell.
C10_NonTrivialAll ==
    pc = "done" =>
       /\ ZeroCount(puzzle, bw * bh) >= 1
       /\ ZeroCount(puzzle, bw * bh) < (bw * bh) * (bw * bh)

\* C10, amended: for box dimensions with box_width * box_height >= 2 the
\* puzzle holds at least one zero cell and at least one non-zero cell.
C10_NonTrivial ==
    (pc = "done" /\ bw * bh >= 2) =>
       /\ ZeroCount(puzzle, bw * bh) >= 1
       /\ ZeroCount(puzzle, bw * bh) < (bw * bh) * (bw * bh)

\* generate has returned a HARD puzzle of a 2 x 2 board: two cells removed,
\* two left.
C10_Witness ==
    /\ pc = "done"
    /\ bw * bh = 2
    /\ difficulty = "HARD"
    /\ ZeroCount(puzzle, bw * bh) = 2

\* C11: solve on a puzzle that generate returned never returns None: it
\* returns an N x N grid without a zero cell.
C11_PuzzleSolvable ==
    (pc = "solve returned" /\ before = puzzle) =>
       /\ solved # None
       /\ DOMAIN solved = Range(bw * bh)
       /\ \A r \in Range(bw * bh) : DOMAIN solved[r] = Range(bw * bh)
       /\ ZeroCount(solved, bw * bh) = 0

\* solve has returned on a HARD puzzle of 2 x 2 boxes, with a grid that is
\* not the complete grid the puzzle was carved from.
C11_Witness ==
    /\ pc = "solve returned"
    /\ before = puzzle
    /\ bw = 2
    /\ bh = 2
    /\ difficulty = "HARD"
    /\ solved # None
    /\ solved # board

\* C12: on the boards of 4, 6, 9 and 16 rows, an EASY puzzle has strictly
\* fewer zero cells than a MEDIUM puzzle, and a MEDIUM puzzle strictly fewer
\* than a HARD puzzle, whatever the random choices.
C12_CountsIncrease ==
    LET has(d) == d \in DOMAIN drawn
    IN  /\ (has("EASY") /\ has("MEDIUM")) => drawn["EASY"] < drawn["MEDIUM"]
        /\ (has("MEDIUM") /\ has("HARD")) => drawn["MEDIUM"] < drawn["HARD"]
        /\ (has("EASY") /\ has("HARD")) => drawn["EASY"] < drawn["HARD"]

\* On the board of 9 rows the three puzzles have the closest counts their
\* ranges allow: 32, 36 and 48 zero cells.
C12_Witness ==
    /\ bw = 3
    /\ bh = 3
    /\ DOMAIN drawn = {"EASY", "MEDIUM", "HARD"}
    /\ drawn["EASY"] = 32
    /\ drawn["MEDIUM"] = 36
    /\ drawn["HARD"] = 48

\* C13: when solve or has_unique_solution has returned, the grid of the
\* caller is cell for cell what it was at the call; when _remove_cells has
\* returned, the complete grid is what it was at the call, and the puzzle
\* returned is another grid: its removed cells are not removed in the
\* complete grid.
C13_ArgumentUnchanged ==
    /\ (pc \in {"solve returned", "has_unique_solution returned"}
           /\ grid # None) => grid = before
    /\ (pc \in {"solve returned", "has_unique_solution returned"}
           /\ grid = None) => puzzle = before
    /\ pc = "done" =>
          /\ board = before
          /\ ZeroCount(board, bw * bh) = 0
          /\ removeCount > 0 => puzzle # board

\* solve has returned a grid that differs from the grid of its caller in at
\* least two rows.
C13_Witness ==
    /\ pc = "solve returned"
    /\ grid # None
    /\ solved # None
    /\ Cardinality({r \in Range(bw * bh) : solved[r] # grid[r]}) >= 2

\* C14: on a full grid whose rows, columns and boxes are permutations of
\* 1..N, solve returns a grid equal to the grid it was given.
C14_SolvedIsFixpoint ==
    (pc = "solve returned" /\ grid # None
        /\ IsSolutionGrid(before, bw, bh)) => solved = before

\* solve has returned on a solved grid of 2 x 2 boxes other than the seed
\* grid.
C14_Witness ==
    /\ pc = "solve returned"
    /\ bw = 2
    /\ bh = 2
    /\ before # SeedGrid(2, 2)
    /\ IsSolutionGrid(before, bw, bh)
    /\ solved = before

\* C15: _is_valid_placement returns False exactly when the value occurs in
\* the row of the cell, in its column or in its box of box_height rows and
\* box_width columns; it changes no cell of the grid; the copy of the
\* generator and the copy of the solver return the same result.
C15_PlacementRule ==
    LET n == bw * bh
        row_cells == {probe.row} \X Range(n)
        col_cells == Range(n) \X {probe.col}
        box_cells == BoxCells(probe.row \div bh, probe.col \div bw, bw, bh)
        occurs == \E p \in row_cells \cup col_cells \cup box_cells :
                     before[p[1]][p[2]] = probe.num
    IN  /\ pc \in {"generator probed", "probed"} =>
              /\ probe.generator = ~ occurs
              /\ grid = before
        /\ pc = "probed" =>
              /\ probe.solver = ~ occurs
              /\ probe.solver = probe.generator

\* Both copies have returned False on a board of 3 x 2 boxes for a value
\* that occurs in the box of the cell only.
C15_Witness ==
    /\ pc = "probed"
    /\ bw = 3
    /\ bh = 2
    /\ probe.row = 0
    /\ probe.col = 0
    /\ grid[1][2] = probe.num
    /\ ZeroCount(grid, bw * bh) = 35
    /\ ~ probe.solver
    /\ ~ probe.generator

\* C16: when the upper-cased difficulty is none of EASY, MEDIUM and HARD,
\* generate raises its error before any fill or removal step and returns no
\* grid; a lower-case spelling of one of the three names is accepted, and
\* the count removed lies in the range of the upper-case name.
C16_DifficultyCheck ==
    LET name ==
            CASE difficulty \in {"EASY", "easy"} -> "EASY"
              [] difficulty \in {"MEDIUM", "medium", "Medium"} -> "MEDIUM"
              [] difficulty \in {"HARD", "hard"} -> "HARD"
              [] OTHER -> "none"
        total == (bw * bh) * (bw * bh)
        range ==
            CASE name = "EASY" ->
                    ((total * 30) \div 100) .. ((total * 40) \div 100)
              [] name = "MEDIUM" ->
                    ((total * 45) \div 100) .. ((total * 55) \div 100)
              [] name = "HARD" ->
                    ((total * 60) \div 100) .. ((total * 65) \div 100)
              [] OTHER -> {}
    IN  /\ name = "none" =>
              /\ pc \in {"generate", "error"}
              /\ board = None
              /\ stack = <<>>
              /\ puzzle = None
              /\ removeCount = 0
        /\ name # "none" => pc # "error"
        /\ (name # "none" /\ pc = "done") =>
              /\ removeCount \in range
              /\ ZeroCount(puzzle, bw * bh) = removeCount

\* generate has raised its error on the difficulty "expert" for a board of
\* three rows.
C16_Witness ==
    /\ pc = "error"
    /\ difficulty = "expert"
    /\ bw * bh = 3
    /\ board = None
    /\ puzzle = None

\* C17: a generate call with box_width <= 0 or box_height <= 0 fails before
\* any fill or removal step runs, and returns no grid.
C17_InvalidDimensions ==
    (bw <= 0 \/ bh <= 0) =>
       /\ pc \in {"generate", "error"}
       /\ removeCount = 0

\* C18: Game.state changes only by start from NOT_STARTED to IN_PROGRESS,
\* pause from IN_PROGRESS to PAUSED, resume from PAUSED to IN_PROGRESS,
\* mark_as_won from IN_PROGRESS to WON and mark_as_lost from IN_PROGRESS to
\* LOST; each of the five called in another state raises ValueError and
\* leaves the state as it is; a state WON or LOST never changes.
C18_StateTransitions ==
    [][LET from ==
               [start |-> "NOT_STARTED", pause |-> "IN_PROGRESS",
                resume |-> "PAUSED", mark_as_won |-> "IN_PROGRESS",
                mark_as_lost |-> "IN_PROGRESS"]
           to ==
               [start |-> "IN_PROGRESS", pause |-> "PAUSED",
                resume |-> "IN_PROGRESS", mark_as_won |-> "WON",
                mark_as_lost |-> "LOST"]
       IN  /\ state' # state =>
                 /\ called'.op \in DOMAIN from
                 /\ state = from[called'.op]
                 /\ state' = to[called'.op]
           /\ (called'.op \in DOMAIN from /\ state # from[called'.op]) =>
                 /\ raised' = "ValueError"
                 /\ state' = state
           /\ (called'.op \in DOMAIN from /\ state = from[called'.op]) =>
                 /\ raised' = "none"
                 /\ state' = to[called'.op]
           /\ state \in {"WON", "LOST"} => state' = state]_vars

\* resume has been called on a game that is WON and has raised ValueError.
C18_Witness ==
    /\ state = "WON"
    /\ called.op = "resume"
    /\ raised = "ValueError"

\* C19: make_move, placing a value or clearing, raises ValueError and leaves
\* every cell of the board as it is when the state of the game is not
\* IN_PROGRESS.
C19_MoveNeedsProgress ==
    [][(called'.op = "make_move" /\ state # "IN_PROGRESS") =>
          /\ raised' = "ValueError"
          /\ boardCells' = boardCells
          /\ state' = state]_vars

\* make_move has raised ValueError on a PAUSED game for a value of the range
\* at an empty cell that is not fixed, on a board with a cell filled by an
\* earlier move.
C19_Witness ==
    /\ state = "PAUSED"
    /\ called.op = "make_move"
    /\ called.position = <<0, 0>>
    /\ ~ called.clear
    /\ called.value = 1
    /\ raised = "ValueError"
    /\ boardCells[<<0, 0>>] = [value |-> 0, is_fixed |-> FALSE]
    /\ boardCells[<<1, 1>>] = [value |-> 2, is_fixed |-> FALSE]

\* C20: over the make_move calls of a game, a fixed cell keeps its value and
\* its fixed flag, and a call that places on or clears a fixed cell raises
\* ValueError and changes no cell.
C20_FixedCellsKept ==
    [][/\ \A position \in DOMAIN boardCells :
             boardCells[position].is_fixed =>
                boardCells'[position] = boardCells[position]
       /\ (/\ called'.op = "make_move"
           /\ called'.position \in DOMAIN boardCells
           /\ boardCells[called'.position].is_fixed) =>
             /\ raised' = "ValueError"
             /\ boardCells' = boardCells]_vars

\* A game in progress with a cell filled by a move: make_move has raised
\* ValueError for a value of the range placed on a fixed cell.
C20_Witness ==
    /\ state = "IN_PROGRESS"
    /\ called.op = "make_move"
    /\ called.position = <<0, 1>>
    /\ ~ called.clear
    /\ called.value = 2
    /\ raised = "ValueError"
    /\ boardCells[<<0, 1>>] = [value |-> 1, is_fixed |-> TRUE]
    /\ boardCells[<<1, 0>>] = [value |-> 1, is_fixed |-> FALSE]

\* C21: under a clock that never goes back, elapsed_time is zero before
\* start and equals, at every moment after, the clock time the game has
\* spent IN_PROGRESS: time in PAUSED, over any number of pause and resume
\* cycles, and time after WON or LOST do not count.
C21_ElapsedIsPlayTime ==
    pc = "game" =>
        /\ ElapsedTime = played
        /\ state = "NOT_STARTED" => ElapsedTime = 0

\* A game WON after two pause and resume cycles, each with time passing in
\* it, with time played and time passed since the win.
C21_Witness ==
    /\ pc = "game"
    /\ state = "WON"
    /\ startTime = 0
    /\ totalPaused = 2
    /\ played = 2
    /\ endTime = 4
    /\ now = 5
    /\ ElapsedTime = 2

C29_BoardStaysValid ==
    (pc = "game" /\ NoDuplicates(puzzle, bw, bh)) =>
        NoDuplicates(BoardToList(boardCells, bw * bh), bw, bh)

\* On the 4 x 4 board with the fixed cell (1, 1) = 2 and 1 placed at (0, 2)
\* by a move, execute has returned False for the value 2 at (0, 0), which
\* only the box of (1, 1) forbids; the board started without duplicates.
C29_Witness ==
    /\ pc = "game"
    /\ bw = 2 /\ bh = 2
    /\ NoDuplicates(puzzle, bw, bh)
    /\ called = ExecuteCall(<<0, 0>>, FALSE, 2)
    /\ success = "False"
    /\ boardCells[<<1, 1>>] = [value |-> 2, is_fixed |-> TRUE]
    /\ boardCells[<<0, 2>>] = [value |-> 1, is_fixed |-> FALSE]
    /\ boardCells[<<0, 0>>] = [value |-> 0, is_fixed |-> FALSE]
    /\ boardCells[<<0, 3>>].value = 0
    /\ boardCells[<<2, 0>>].value = 0

\* C23: after any sequence of update_statistics calls, get_statistics(p, d)
\* reports, over the calls for (p, d) with a time that is not negative,
\* their number as games_played, the number of them with won = True as
\* games_won (at most games_played) and the sum of their times as
\* total_time; the calls for another player or another difficulty do not
\* count in it.
C23_StatisticsCount ==
    pc = "statistics" =>
        \A p \in PlayerNames : \A d \in StatisticsDifficulties :
           LET mine == SelectSeq(calls, LAMBDA c :
                           /\ c.player_name = p
                           /\ c.difficulty = d
                           /\ c.time_taken >= 0)
               wins == SelectSeq(mine, LAMBDA c : c.won)
               RECURSIVE Total(_)
               Total(q) == IF q = <<>> THEN 0
                           ELSE Head(q).time_taken + Total(Tail(q))
               reported == GetStatistics(stats, p, d)
           IN  /\ reported.games_played = Len(mine)
               /\ reported.games_won = Len(wins)
               /\ reported.games_won <= reported.games_played
               /\ reported.total_time = Total(mine)

\* ann has played easy twice, won once, in 2 seconds and 0 seconds, and
\* hard once; nothing is recorded for bob.
C23_Witness ==
    /\ pc = "statistics"
    /\ Len(calls) = 3
    /\ GetStatistics(stats, "ann", "easy") =
          [games_played |-> 2, games_won |-> 1, total_time |-> 2]
    /\ GetStatistics(stats, "ann", "hard") =
          [games_played |-> 1, games_won |-> 0, total_time |-> 2]
    /\ calls[2].difficulty = "hard"
    /\ "bob" \notin DOMAIN stats

\* C24: when a call of _fill_board or of _solve_recursive returns False, the
\* working grid equals, cell for cell, the grid as it was when that call was
\* entered; and when solve returns None after its search, the working copy
\* equals the grid solve was given.
C24_FailedBranchUnwound ==
    [][/\ (pc = "loop" /\ pc' = "return" /\ ret' = FALSE) =>
             board' = Top.entry
       /\ (pc = "solve loop" /\ pc' = "solve return" /\ result' = FALSE) =>
             work' = TopFrame.entry
       /\ (pc = "solve return" /\ pc' = "solved" /\ solved' = None) =>
             work' = grid]_vars

\* A _solve_recursive call below the top-level one has returned False to a
\* caller whose loop has backtracked before: the caller's cell still holds
\* the number it placed for that call.
C24_Witness ==
    /\ pc = "solve return"
    /\ result = FALSE
    /\ Len(frames) >= 2
    /\ TopFrame.num > 1
    /\ work[TopFrame.row][TopFrame.col] = TopFrame.num
    /\ work # grid

\* C25: in a has_unique_solution call the search reaches no third complete
\* assignment, and no _count_solutions call returns a count above max_count.
C25_CountCapped ==
    pc \in {"count call", "count loop", "count return", "counted"} =>
        /\ reached <= MaxCount
        /\ pc = "count return" => result <= MaxCount

\* C26: the search of solve writes only to cells that are zero in the input,
\* and when solve returns a grid, every cell that is non-zero in the input
\* holds the same value in it.
C26_GivensKept ==
    [][/\ pc \in {"solve call", "solve loop", "solve return"} =>
             \A p \in Positions(bw * bh) :
                work'[p[1]][p[2]] # work[p[1]][p[2]] =>
                   grid[p[1]][p[2]] = 0
       /\ (pc' = "solved" /\ solved' # None) =>
             \A p \in Positions(bw * bh) :
                grid[p[1]][p[2]] # 0 =>
                   solved'[p[1]][p[2]] = grid[p[1]][p[2]]]_vars

\* solve has returned a grid for a 4 x 4 input with three cells given, after
\* a search that backtracked: it made more placements than cells were empty.
C26_Witness ==
    /\ pc = "solved"
    /\ solved # None
    /\ bw = 2 /\ bh = 2
    /\ Cardinality({p \in Positions(4) : grid[p[1]][p[2]] # 0}) = 3
    /\ \A p \in Positions(4) :
          grid[p[1]][p[2]] # 0 => solved[p[1]][p[2]] = grid[p[1]][p[2]]
    /\ SolveCall(grid, bw, bh).placed > 13

\* C27: for a grid without a duplicate in a row, a column or a box that has
\* a completion, solve returns the completion that is smallest when grids
\* are compared cell by cell in row-major order; solve on equal grids thus
\* returns equal grids.
C27_SmallestCompletion ==
    LET n == bw * bh
        Index(p) == p[1] * n + p[2]
        Less(a, b) ==
            \E p \in Positions(n) :
               /\ a[p[1]][p[2]] < b[p[1]][p[2]]
               /\ \A q \in Positions(n) :
                     Index(q) < Index(p) => a[q[1]][q[2]] = b[q[1]][q[2]]
    IN  (/\ pc = "solve returned"
         /\ NoDuplicates(before, bw, bh)
         /\ Completions(before, bw, bh) # {}) =>
            /\ solved \in Completions(before, bw, bh)
            /\ \A other \in Completions(before, bw, bh) :
                  other = solved \/ Less(solved, other)

\* solve has returned a grid for a 4 x 4 input with at least three
\* completions, after a search that backtracked.
C27_Witness ==
    /\ pc = "solve returned"
    /\ bw = 2 /\ bh = 2
    /\ NoDuplicates(before, bw, bh)
    /\ Cardinality(Completions(before, bw, bh)) >= 3
    /\ solved \in Completions(before, bw, bh)
    /\ placements > ZeroCount(before, 4)

\* C28: for every input grid and every order the shuffles produce, the calls
\* of _fill_board, solve and has_unique_solution return: every execution
\* reaches the return of its top-level call.
C28_Terminates == <>(pc \in {"filled", "solved", "counted"})

\* solve has returned None for a 3 x 3 grid without duplicates after a
\* search that found no completion.
C28_Witness ==
    /\ pc = "solved"
    /\ bw = 3 /\ bh = 1
    /\ NoDuplicates(grid, bw, bh)
    /\ work = grid
    /\ result = FALSE
    /\ solved = None

====
